---- MODULE Spec2Model ----
(***************************************************************************)
(* Model of the project-metrics module of taiga-back                       *)
(* (taiga/projects/metrics): the snapshot store behind                      *)
(* get_or_build_snapshot, the active-sprint lookup and the project metrics. *)
(*                                                                          *)
(* Several specifications share the module:                                 *)
(*   Spec        concurrent get_or_build_snapshot calls on the snapshot     *)
(*               table (internal.py);                                       *)
(*   SpecTtl     sequential calls under every TTL setting (internal.py);    *)
(*   SpecSprint  get_active_sprint on a milestone table (base.py);          *)
(*   SpecMetric  the registered project metrics on a project database       *)
(*               (metrics_impl.py, internal.py);                            *)
(*   SpecSnapshot  InternalMetricsCalculator.build_snapshot and the         *)
(*               per-student share metrics (internal.py, metrics_impl.py);  *)
(*   SpecRegistry  the register_* decorators (base.py);                     *)
(*   SpecInterval  get_adaptive_interval (metrics_impl.py);                 *)
(*   SpecHistorical  the historical metrics (metrics_impl.py);              *)
(*   SpecRefresh   the refresh flag of the metrics endpoints (api.py);      *)
(*   SpecGoogle    login_with_google (auth/providers/google.py);            *)
(*   SpecSession   the session entry of the external provider (api.py);     *)
(*   SpecStudent   a student metric instance shared by the team             *)
(*               (metrics_impl.py, base.py).                                *)
(* Time is counted in minutes, dates in days.                               *)
(***************************************************************************)
EXTENDS Integers, FiniteSets, Sequences, TLC

VARIABLES
    \* ---- snapshot store (Spec) ----
    settings,     \* django settings: a set of <<name, value>> pairs
    now,          \* timezone.now(), in minutes
    ticks,        \* number of clock advances so far
    snapshots,    \* rows of ProjectMetricsSnapshot
    next_id,      \* the table's auto-increment primary key
    pc,           \* position of each get_or_build_snapshot call
    args,         \* arguments of each call: project, use_cache, force
    cutoff,       \* local variable cutoff of each call
    snapshot,     \* local variable snapshot of each call (a row id, 0 = unset)
    \* ---- history of the calls (not program state) ----
    started,      \* number of calls begun so far
    built,        \* the call ran the calculator and created a row
    alone,        \* no other call has been in flight since the call began
    \* ---- project database (SpecSprint, SpecMetric) ----
    milestones,   \* rows of milestones_milestone
    tasks,        \* rows of tasks_task
    userstories,  \* rows of userstories_userstory
    issues,       \* rows of issues_issue
    memberships,  \* rows of projects_membership
    sprint,       \* the last get_active_sprint call: its argument and its result
    metric,       \* the last metric calculation: the callee, its locals, its result
    \* ---- metric registries (SpecRegistry) ----
    metric_registry,             \* METRIC_REGISTRY of base.py
    student_metric_registry,     \* STUDENT_METRIC_REGISTRY
    historical_metric_registry,  \* HISTORICAL_METRIC_REGISTRY
    returned,       \* the value the last register_* call returned
    registrations,  \* history: the register_* calls so far, <<function, class>>
    \* ---- users and sessions (SpecGoogle, SpecSession) ----
    users,          \* rows of users_user
    session,        \* request.session of the client: a set of <<key, value>> pairs
    response        \* the last request of the client and what it was answered

storeVars == <<settings, now, ticks, snapshots, next_id, pc, args, cutoff,
               snapshot, started, built, alone>>

registryVars == <<metric_registry, student_metric_registry,
                  historical_metric_registry, returned, registrations>>

authVars == <<users, session, response>>

\* What the calculations read and never write: the tables, the registries
\* and the state of the users and their sessions.
dataVars == <<milestones, tasks, userstories, issues, memberships, registryVars,
              authVars>>

dbVars == <<dataVars, sprint, metric>>

vars == <<storeVars, dbVars>>

----------------------------------------------------------------------------
\* Bounds of the model.
NCalls == 2          \* concurrent request slots
MaxStarts == 3       \* calls ever begun
MaxTicks == 2        \* clock advances
ConfiguredTtl == 1   \* the TTL setting of the deployment Spec explores

\* Program constants.
DEFAULT_SNAPSHOT_TTL_MINUTES == 60

Calls == 1..NCalls
\* The project the calls are made for, and another project of the instance.
TheProject == 1
OtherProject == 2
INTERNAL_PROVIDER == "internal"
TTL_SETTING == "METRICS_INTERNAL_SNAPSHOT_TTL_MINUTES"

\* Rows of the table that are not of (TheProject, internal).
ForeignRows ==
    {[id |-> 1, project |-> OtherProject, provider |-> INTERNAL_PROVIDER,
      computed_at |-> 0, payload |-> [project_slug |-> OtherProject]],
     [id |-> 2, project |-> TheProject, provider |-> "external",
      computed_at |-> 0, payload |-> [project_slug |-> TheProject]]}

Max(a, b) == IF a >= b THEN a ELSE b

\* getattr(settings, name, default)
getattr(s, name, default) ==
    IF \E kv \in s : kv[1] = name
    THEN (CHOOSE kv \in s : kv[1] = name)[2]
    ELSE default

ttl_minutes == getattr(settings, TTL_SETTING, DEFAULT_SNAPSHOT_TTL_MINUTES)

\* Variant of Cutoff without the clamp of the TTL to one minute.
CutoffUnclamped(t, ttl) == t - ttl

\* cutoff = timezone.now() - timedelta(minutes=max(ttl_minutes, 1))
Cutoff(t, ttl) == t - Max(ttl, 1)

\* Variant of UsesCache that lets use_cache win over force.
UsesCacheDespiteForce(uc, f) == uc

\* if use_cache and not force:
UsesCache(uc, f) == uc /\ ~f

\* queryset = ProjectMetricsSnapshot.objects.filter(project=..., provider=INTERNAL)
Queryset(rows, p) ==
    {r \in rows : r.project = p /\ r.provider = INTERNAL_PROVIDER}

\* Meta.ordering = ["-computed_at", "-id"]: r comes before s
Before(r, s) ==
    \/ r.computed_at > s.computed_at
    \/ r.computed_at = s.computed_at /\ r.id > s.id

\* Variant of First under the ascending ordering: the oldest row.
FirstOldest(rows) == {r \in rows : \A s \in rows : s = r \/ Before(s, r)}

\* queryset.first(): the first row in Meta.ordering, as a set of at most one row
First(rows) == {r \in rows : \A s \in rows : s = r \/ Before(r, s)}

\* Variant of Fresh that forgets the cutoff.
FreshAlways(rows, co) == rows

\* queryset.filter(computed_at__gte=cutoff)
Fresh(rows, co) == {r \in rows : r.computed_at >= co}

\* Variant of Stale without the exclude: the new row is deleted too.
StaleWithoutExclude(rows, p, id) == Queryset(rows, p)

\* Variant of Stale whose delete never runs: nothing is selected.
StaleNothing(rows, p, id) == {}

\* Variant of Stale that selects from the whole table.
StaleOfAnyPair(rows, p, id) == {r \in rows : r.id # id}

\* stale = queryset.exclude(id=snapshot.id)
Stale(rows, p, id) == {r \in Queryset(rows, p) : r.id # id}

InFlight(c) == pc[c] \in {"lookup", "build", "prune"}

IdleLocals == [project |-> 0, use_cache |-> FALSE, force |-> FALSE]

\* result.payload of calculator.build_snapshot(), as far as the store is
\* concerned: the payload names the project it was built for.
Payload(p) == [project_slug |-> p]

----------------------------------------------------------------------------
\* get_or_build_snapshot, one action per statement that reads the clock or
\* the table.

\* lines 534-542: read the setting and the clock; a forced or uncached call
\* skips the cache query.
Begin(c, p, uc, f) ==
    /\ pc[c] = "idle"
    /\ \A d \in Calls : d < c => pc[d] # "idle"
    /\ started < MaxStarts
    /\ started' = started + 1
    /\ args' = [args EXCEPT ![c] = [project |-> p, use_cache |-> uc, force |-> f]]
    /\ cutoff' = [cutoff EXCEPT ![c] = Cutoff(now, ttl_minutes)]
    /\ pc' = [pc EXCEPT ![c] = IF UsesCache(uc, f) THEN "lookup" ELSE "build"]
    /\ alone' = [d \in Calls |->
                   IF d = c THEN \A e \in Calls \ {c} : ~InFlight(e)
                   ELSE IF pc[d] = "idle" THEN alone[d] ELSE FALSE]
    /\ UNCHANGED <<settings, now, ticks, snapshots, next_id, snapshot, built>>
    /\ UNCHANGED dbVars

\* lines 543-545: the cache query; a row found is returned at once.
Lookup(c) ==
    /\ pc[c] = "lookup"
    /\ LET found == First(Fresh(Queryset(snapshots, args[c].project), cutoff[c]))
       IN IF found # {}
          THEN /\ snapshot' = [snapshot EXCEPT ![c] = (CHOOSE r \in found : TRUE).id]
               /\ pc' = [pc EXCEPT ![c] = "done"]
               /\ args' = [args EXCEPT ![c] = IdleLocals]
               /\ alone' = [alone EXCEPT ![c] = FALSE]
          ELSE /\ pc' = [pc EXCEPT ![c] = "build"]
               /\ UNCHANGED <<snapshot, args, alone>>
    /\ cutoff' = [cutoff EXCEPT ![c] = 0]
    /\ UNCHANGED <<settings, now, ticks, snapshots, next_id, started, built>>
    /\ UNCHANGED dbVars

\* lines 547-556: calculator.build_snapshot() reads the project's data, then
\* ProjectMetricsSnapshot.objects.create(...) inserts the row.
Create(c) ==
    /\ pc[c] = "build"
    /\ snapshots' = snapshots \cup
          {[id |-> next_id, project |-> args[c].project, provider |-> INTERNAL_PROVIDER,
            computed_at |-> now, payload |-> Payload(args[c].project)]}
    /\ snapshot' = [snapshot EXCEPT ![c] = next_id]
    /\ next_id' = next_id + 1
    /\ built' = [built EXCEPT ![c] = TRUE]
    /\ pc' = [pc EXCEPT ![c] = "prune"]
    /\ cutoff' = [cutoff EXCEPT ![c] = 0]
    /\ UNCHANGED <<settings, now, ticks, args, started, alone>>
    /\ UNCHANGED dbVars

\* lines 558-562: stale.delete(), one DELETE statement, then return snapshot.
Prune(c) ==
    /\ pc[c] = "prune"
    /\ snapshots' = snapshots \ Stale(snapshots, args[c].project, snapshot[c])
    /\ pc' = [pc EXCEPT ![c] = "done"]
    /\ args' = [args EXCEPT ![c] = IdleLocals]
    /\ alone' = [alone EXCEPT ![c] = FALSE]
    /\ UNCHANGED <<settings, now, ticks, next_id, cutoff, snapshot, started, built>>
    /\ UNCHANGED dbVars

\* The caller has taken the returned snapshot; the slot serves the next request.
Finish(c) ==
    /\ pc[c] = "done"
    /\ pc' = [pc EXCEPT ![c] = "idle"]
    /\ snapshot' = [snapshot EXCEPT ![c] = 0]
    /\ built' = [built EXCEPT ![c] = FALSE]
    /\ UNCHANGED <<settings, now, ticks, snapshots, next_id, args, cutoff,
                   started, alone>>
    /\ UNCHANGED dbVars

\* A minute passes.
Tick ==
    /\ ticks < MaxTicks
    /\ now' = now + 1
    /\ ticks' = ticks + 1
    /\ UNCHANGED <<settings, snapshots, next_id, pc, args, cutoff, snapshot,
                   started, built, alone>>
    /\ UNCHANGED dbVars

----------------------------------------------------------------------------
\* get_active_sprint (base.py) on the milestone table.

NMilestones == 2     \* rows of the milestone table
MaxDate == 2         \* dates are the days 0..MaxDate
Today == 1           \* CURRENT_DATE

Dates == 0..MaxDate

\* The empty dictionary {}.
EmptyDict == << >>

\* bool(d) of a dictionary d
Truthy(d) == DOMAIN d # {}

\* The sprint variable before any call.
NoSprintCall == [project_id |-> 0, value |-> EmptyDict]

\* SELECT m.id, m.name, m.estimated_start, m.estimated_finish
SelectColumns(m) ==
    [id |-> m.id, name |-> m.name, estimated_start |-> m.estimated_start,
     estimated_finish |-> m.estimated_finish]

\* sql_current: the rows its WHERE clause keeps.  The statement has LIMIT 1
\* and no ORDER BY, so the database may hand back any one of them.
SqlCurrent(ms, project_id) ==
    {m \in ms : /\ m.project_id = project_id
                /\ m.closed = FALSE
                /\ m.estimated_start <= Today
                /\ m.estimated_finish >= Today}

\* Variant of SqlFallback under ORDER BY m.estimated_finish DESC.
SqlFallbackLatest(ms, project_id) ==
    LET open == {m \in ms : m.project_id = project_id /\ m.closed = FALSE}
    IN {m \in open : \A o \in open : m.estimated_finish >= o.estimated_finish}

\* sql_fallback: the rows that can come first under
\* ORDER BY m.estimated_finish ASC (ties are in the database's hands).
SqlFallback(ms, project_id) ==
    LET open == {m \in ms : m.project_id = project_id /\ m.closed = FALSE}
    IN {m \in open : \A o \in open : m.estimated_finish <= o.estimated_finish}

\* _dictfetchone(cursor) over a statement with LIMIT 1: the dictionaries it
\* can return when rows are the candidates for the first row.
dictfetchone(rows) ==
    IF rows = {} THEN {EmptyDict} ELSE {SelectColumns(m) : m \in rows}

\* get_active_sprint(project_id): the values the call can return.
get_active_sprint(ms, project_id) ==
    LET currents == dictfetchone(SqlCurrent(ms, project_id))
    IN {current \in currents : Truthy(current)}
       \cup (IF \E current \in currents : ~Truthy(current)
             THEN dictfetchone(SqlFallback(ms, project_id))
             ELSE {})

GetActiveSprint(project_id) ==
    /\ \E value \in get_active_sprint(milestones, project_id) :
         sprint' = [project_id |-> project_id, value |-> value]
    /\ UNCHANGED <<dataVars, metric>>
    /\ UNCHANGED storeVars

----------------------------------------------------------------------------
\* The project metrics (metrics_impl.py) and the calculator's own
\* task-completion metric (internal.py).
\*
\* A float is the fraction <<numerator, denominator>>; a rounded value is an
\* integer count of the last decimal kept (round(x, 4) yields ten-thousandths).
\* Timestamps of tasks and issues are hours; a string built by an f-string is
\* the sequence of its pieces.

MaxTasks == 3        \* rows of the task table, completion metrics
MaxFlowTasks == 2    \* rows of the task table, the other metrics
MaxStories == 2      \* rows of the user-story table
MaxIssues == 2       \* rows of the issue table
NUsers == 2          \* users of the instance
NowHours == 400      \* NOW(), in hours

HoursPerDay == 24
RecentTaskDays == 7
RecentIssueDays == 14

\* SQL NULL in an id column, in a date column and in a status column.
NULL == 0
NoDate == -1
NoStatus == "none"

Users == 1..NUsers

\* Python's None.
None == [none |-> TRUE]

\* project.slug
Slug(project_id) == <<"project", project_id>>

\* The metric variable before any calculation.
NoMetricCall == [call |-> "", project_id |-> 0]

\* is_closed of the status row joined to a row (NULL without a status).
StatusIsClosed(status_id) == status_id = "closed"
StatusIsOpen(status_id) == status_id = "new"

\* a / float(b)
ZeroDivisionError == <<0, 0>>
Divide(a, b) == IF b = 0 THEN ZeroDivisionError ELSE <<a, b>>

\* Variant of OneMinus that adds.
OnePlus(x) == IF x = ZeroDivisionError THEN x ELSE <<x[2] + x[1], x[2]>>

\* 1.0 - x
OneMinus(x) == IF x = ZeroDivisionError THEN x ELSE <<x[2] - x[1], x[2]>>

\* n / d rounded to the nearest integer, ties to even (n >= 0, d > 0).
RoundHalfEven(n, d) ==
    LET q == n \div d
        r == n % d
    IN IF 2 * r > d THEN q + 1
       ELSE IF 2 * r < d THEN q
       ELSE IF q % 2 = 0 THEN q ELSE q + 1

\* Variant of Round4 that truncates.
Round4Truncated(x) == (x[1] * 10000) \div x[2]

\* round(x, 4), in ten-thousandths
Round4(x) == RoundHalfEven(x[1] * 10000, x[2])

\* round(x, 2), in hundredths, and f"{x:.1f}", in tenths
Round2(x) == RoundHalfEven(x[1] * 100, x[2])
Format1(x) == RoundHalfEven(x[1] * 10, x[2])

\* Variant of Ratio without the guard on the denominator.
RatioUnguarded(num, total, default) == Divide(num, total)

\* (num / float(total)) if total > 0 else default
Ratio(num, total, default) == IF total > 0 THEN Divide(num, total) ELSE default

\* 1.0 - (num / float(total)) if total > 0 else default
OneMinusRatio(num, total, default) ==
    IF total > 0 THEN OneMinus(Divide(num, total)) ELSE default

\* The class attributes of the registered project metrics.
METRIC_REGISTRY ==
    <<"TaskCompletionMetric", "UserStoryCompletionMetric", "IssueResolutionMetric",
      "TaskAssignmentMetric", "BlockedTasksMetric", "StoriesWithTasksMetric",
      "TeamParticipationMetric", "OverdueTasksMetric", "TaskClosureTimeMetric">>

MetricClass ==
    [TaskCompletionMetric |->
        [metric_id |-> "task_completion", name |-> "Tareas cerradas",
         description |-> "Progreso de cierre de tareas del sprint.",
         quality_factors |-> <<"Delivery">>],
     UserStoryCompletionMetric |->
        [metric_id |-> "userstory_completion", name |-> "Historias completadas",
         description |-> "Progreso de funcionalidades entregadas.",
         quality_factors |-> <<"Delivery">>],
     IssueResolutionMetric |->
        [metric_id |-> "issue_resolution", name |-> "Incidencias resueltas",
         description |-> "Bugs e incidencias solucionados.",
         quality_factors |-> <<"Quality">>],
     TaskAssignmentMetric |->
        [metric_id |-> "task_assignment", name |-> "Tareas asignadas",
         description |-> "Tareas con responsable definido.",
         quality_factors |-> <<"Planning">>],
     BlockedTasksMetric |->
        [metric_id |-> "blocked_tasks", name |-> "Tareas sin bloquear",
         description |-> "Tareas que fluyen sin impedimentos.",
         quality_factors |-> <<"Quality">>],
     StoriesWithTasksMetric |->
        [metric_id |-> "stories_with_tasks", name |-> "Historias desglosadas",
         description |-> "Historias con tareas definidas.",
         quality_factors |-> <<"Planning">>],
     TeamParticipationMetric |->
        [metric_id |-> "team_participation", name |-> "Participación del equipo",
         description |-> "Miembros activos con tareas asignadas.",
         quality_factors |-> <<"Delivery">>],
     OverdueTasksMetric |->
        [metric_id |-> "tasks_on_time", name |-> "Tareas en plazo",
         description |-> "Tareas sin fecha vencida.",
         quality_factors |-> <<"Delivery">>],
     TaskClosureTimeMetric |->
        [metric_id |-> "task_closure_time", name |-> "Tiempo medio de cierre",
         description |-> "Tiempo promedio de cierre de tareas (en horas).",
         quality_factors |-> <<"Team">>]]

\* BaseMetric._build_result; a division error raised while the value was
\* computed leaves no result.
build_result(cls, project_id, value, value_description, metadata) ==
    IF value = ZeroDivisionError
    THEN [raised |-> "ZeroDivisionError"]
    ELSE [id |-> <<MetricClass[cls].metric_id, "_", Slug(project_id)>>,
          name |-> MetricClass[cls].name,
          value |-> Round4(value),
          value_description |-> value_description,
          description |-> MetricClass[cls].description,
          qualityFactors |-> MetricClass[cls].quality_factors,
          metadata |-> metadata]

\* WHERE <table>.project_id = %s {sprint_filter}
SprintScope(rows, project_id, active) ==
    {r \in rows : /\ r.project_id = project_id
                  /\ Truthy(active) => r.milestone_id = active.id}

\* Variant of SprintName that names the project-wide scope "Sprint".
SprintNameWithoutProject(active) ==
    IF Truthy(active) /\ "name" \in DOMAIN active THEN active.name ELSE <<"Sprint">>

\* sprint.get("name", "Sprint") if sprint else "Proyecto"
SprintName(active) ==
    IF Truthy(active)
    THEN (IF "name" \in DOMAIN active THEN active.name ELSE <<"Sprint">>)
    ELSE <<"Proyecto">>

\* finished_date >= NOW() - INTERVAL 'days days'
Recent(finished_date, days) ==
    finished_date # NoDate /\ finished_date >= NowHours - days * HoursPerDay

\* EXTRACT(EPOCH FROM (t.finished_date - t.created_date)) / 3600
ClosureHours(t) == t.finished_date - t.created_date

RECURSIVE SumHours(_)
SumHours(rows) ==
    IF rows = {} THEN 0
    ELSE LET t == CHOOSE t \in rows : TRUE
         IN ClosureHours(t) + SumHours(rows \ {t})

MinHours(rows) ==
    IF rows = {} THEN 0
    ELSE ClosureHours(CHOOSE t \in rows :
                         \A u \in rows : ClosureHours(t) <= ClosureHours(u))

MaxHours(rows) ==
    IF rows = {} THEN 0
    ELSE ClosureHours(CHOOSE t \in rows :
                         \A u \in rows : ClosureHours(t) >= ClosureHours(u))

TaskCompletionMetric(project_id, active) ==
    LET sprint_name == SprintName(active)
        rows == SprintScope(tasks, project_id, active)
        total == Cardinality(rows)
        closed == Cardinality({t \in rows : StatusIsClosed(t.status_id)})
        recent_closed ==
            Cardinality({t \in rows : /\ StatusIsClosed(t.status_id)
                                      /\ Recent(t.finished_date, RecentTaskDays)})
        ratio == Ratio(closed, total, <<0, 1>>)
    IN build_result("TaskCompletionMetric", project_id, ratio,
           <<closed, "/", total, " en ">> \o sprint_name,
           [total |-> total, closed |-> closed, recent_closed |-> recent_closed,
            sprint_name |-> sprint_name, has_active_sprint |-> active # None])

UserStoryCompletionMetric(project_id, active) ==
    LET sprint_name == SprintName(active)
        rows == SprintScope(userstories, project_id, active)
        total == Cardinality(rows)
        closed == Cardinality({us \in rows : StatusIsClosed(us.status_id)})
        ratio == Ratio(closed, total, <<0, 1>>)
    IN build_result("UserStoryCompletionMetric", project_id, ratio,
           <<closed, "/", total, " en ">> \o sprint_name,
           [total |-> total, closed |-> closed,
            sprint_name |-> sprint_name, has_active_sprint |-> active # None])

IssueResolutionMetric(project_id, active) ==
    LET sprint_name == SprintName(active)
        rows == SprintScope(issues, project_id, active)
        total == Cardinality(rows)
        closed == Cardinality({i \in rows : StatusIsClosed(i.status_id)})
        recent_closed ==
            Cardinality({i \in rows : /\ StatusIsClosed(i.status_id)
                                      /\ Recent(i.finished_date, RecentIssueDays)})
        ratio == Ratio(closed, total, <<0, 1>>)
    IN build_result("IssueResolutionMetric", project_id, ratio,
           <<closed, "/", total, " en ">> \o sprint_name,
           [total |-> total, closed |-> closed, recent_closed |-> recent_closed,
            sprint_name |-> sprint_name, has_active_sprint |-> active # None])

TaskAssignmentMetric(project_id, active) ==
    LET sprint_name == SprintName(active)
        rows == SprintScope(tasks, project_id, active)
        total == Cardinality(rows)
        assigned == Cardinality({t \in rows : t.assigned_to_id # NULL})
        ratio == Ratio(assigned, total, <<1, 1>>)
    IN build_result("TaskAssignmentMetric", project_id, ratio,
           <<assigned, "/", total, " en ">> \o sprint_name,
           [total |-> total, assigned |-> assigned, unassigned |-> total - assigned,
            sprint_name |-> sprint_name])

BlockedTasksMetric(project_id, active) ==
    LET sprint_name == SprintName(active)
        rows == {t \in SprintScope(tasks, project_id, active) :
                    StatusIsOpen(t.status_id)}
        total == Cardinality(rows)
        blocked == Cardinality({t \in rows : t.is_blocked = TRUE})
        ratio == OneMinusRatio(blocked, total, <<1, 1>>)
    IN build_result("BlockedTasksMetric", project_id, ratio,
           <<blocked, " bloqueadas en ">> \o sprint_name,
           [total_open |-> total, blocked |-> blocked, sprint_name |-> sprint_name])

StoriesWithTasksMetric(project_id, active) ==
    LET sprint_name == SprintName(active)
        rows == SprintScope(userstories, project_id, active)
        total == Cardinality({us.id : us \in rows})
        with_tasks ==
            Cardinality({us.id : us \in {r \in rows :
                                           \E t \in tasks : t.user_story_id = r.id}})
        ratio == Ratio(with_tasks, total, <<1, 1>>)
    IN build_result("StoriesWithTasksMetric", project_id, ratio,
           <<with_tasks, "/", total, " en ">> \o sprint_name,
           [total_stories |-> total, with_tasks |-> with_tasks,
            sprint_name |-> sprint_name])

TeamParticipationMetric(project_id, active) ==
    LET sprint_name == SprintName(active)
        members == {m \in memberships :
                       m.project_id = project_id /\ m.user_id # NULL}
        joined == {mt \in members \X tasks :
                      /\ mt[2].project_id = mt[1].project_id
                      /\ mt[2].assigned_to_id = mt[1].user_id
                      /\ Truthy(active) => mt[2].milestone_id = active.id}
        total == Cardinality({m.user_id : m \in members})
        with_tasks == Cardinality({mt[2].assigned_to_id : mt \in joined})
        ratio == Ratio(with_tasks, total, <<0, 1>>)
    IN build_result("TeamParticipationMetric", project_id, ratio,
           <<with_tasks, "/", total, " en ">> \o sprint_name,
           [total_members |-> total, members_with_tasks |-> with_tasks,
            sprint_name |-> sprint_name])

OverdueTasksMetric(project_id, active) ==
    LET sprint_name == SprintName(active)
        rows == {t \in SprintScope(tasks, project_id, active) :
                    StatusIsOpen(t.status_id)}
        total_open == Cardinality(rows)
        overdue == Cardinality({t \in rows :
                                   t.due_date # NoDate /\ t.due_date < Today})
        ratio == OneMinusRatio(overdue, total_open, <<1, 1>>)
    IN build_result("OverdueTasksMetric", project_id, ratio,
           <<overdue, " vencidas en ">> \o sprint_name,
           [total_open |-> total_open, overdue |-> overdue,
            on_time |-> total_open - overdue, sprint_name |-> sprint_name])

TaskClosureTimeMetric(project_id, active) ==
    LET sprint_name == SprintName(active)
        rows == {t \in SprintScope(tasks, project_id, active) :
                    StatusIsClosed(t.status_id) /\ t.finished_date # NoDate}
        task_count == Cardinality(rows)
        avg_hours == IF rows = {} THEN <<0, 1>> ELSE <<SumHours(rows), task_count>>
        display ==
            IF avg_hours[1] < avg_hours[2]
            THEN <<(avg_hours[1] * 60) \div avg_hours[2], " min">>
            ELSE IF avg_hours[1] < HoursPerDay * avg_hours[2]
            THEN <<Format1(avg_hours), " h">>
            ELSE <<Format1(<<avg_hours[1], HoursPerDay * avg_hours[2]>>), " días">>
    IN build_result("TaskClosureTimeMetric", project_id,
           <<Round2(avg_hours), 100>>, display,
           [avg_hours |-> Round2(avg_hours), task_count |-> task_count,
            min_hours |-> 100 * MinHours(rows), max_hours |-> 100 * MaxHours(rows),
            sprint_name |-> sprint_name])

\* metric.calculate() of a registered class, once its sprint is resolved.
calculate(cls, project_id, active) ==
    CASE cls = "TaskCompletionMetric" -> TaskCompletionMetric(project_id, active)
      [] cls = "UserStoryCompletionMetric" -> UserStoryCompletionMetric(project_id, active)
      [] cls = "IssueResolutionMetric" -> IssueResolutionMetric(project_id, active)
      [] cls = "TaskAssignmentMetric" -> TaskAssignmentMetric(project_id, active)
      [] cls = "BlockedTasksMetric" -> BlockedTasksMetric(project_id, active)
      [] cls = "StoriesWithTasksMetric" -> StoriesWithTasksMetric(project_id, active)
      [] cls = "TeamParticipationMetric" -> TeamParticipationMetric(project_id, active)
      [] cls = "OverdueTasksMetric" -> OverdueTasksMetric(project_id, active)
      [] cls = "TaskClosureTimeMetric" -> TaskClosureTimeMetric(project_id, active)

\* InternalMetricsCalculator._metric_task_completion: project-wide.
metric_task_completion(project_id) ==
    LET rows == {t \in tasks : t.project_id = project_id}
        total == Cardinality(rows)
        closed == Cardinality({t \in rows : StatusIsClosed(t.status_id)})
        recent_closed ==
            Cardinality({t \in rows : /\ StatusIsClosed(t.status_id)
                                      /\ Recent(t.finished_date, RecentTaskDays)})
        ratio == IF total = 0 THEN <<0, 1>> ELSE Divide(closed, total)
    IN [id |-> <<"task_completion", "_", Slug(project_id)>>,
        name |-> "Closed tasks",
        value |-> Round4(ratio),
        value_description |-> <<closed, "/", total, " tasks closed">>,
        description |-> "Porcentaje de tareas en estado cerrado dentro del proyecto.",
        qualityFactors |-> <<"Delivery">>,
        metadata |-> [total |-> total, closed |-> closed,
                      recent_closed |-> recent_closed]]

\* cls(project).calculate(): the sprint is looked up, then the rows counted.
\* A behaviour calculates one metric, any number of times: the calculations
\* only read the database.
Calculate(cls, project_id) ==
    /\ metric.call \in {"", cls}
    /\ \E active \in get_active_sprint(milestones, project_id) :
         metric' = [call |-> cls, project_id |-> project_id, sprint |-> active,
                    result |-> calculate(cls, project_id, active)]
    /\ UNCHANGED <<dataVars, sprint>>
    /\ UNCHANGED storeVars

\* InternalMetricsCalculator(project)._metric_task_completion()
MetricTaskCompletion(project_id) ==
    /\ metric.call \in {"", "_metric_task_completion"}
    /\ metric' = [call |-> "_metric_task_completion", project_id |-> project_id,
                  result |-> metric_task_completion(project_id)]
    /\ UNCHANGED <<dataVars, sprint>>
    /\ UNCHANGED storeVars

----------------------------------------------------------------------------
\* InternalMetricsCalculator.build_snapshot: the payload of a project, built
\* from the three project metrics and the per-member aggregation.

\* The empty string.
EmptyString == << >>

\* users_user: the username and the full_name column of user u; every other
\* user left the full name empty.
Username(u) == <<"user", u>>
FullName(u) == IF u % 2 = 0 THEN <<"Name", u>> ELSE EmptyString

\* project.name
ProjectName(project_id) == <<"Project", project_id>>

\* InternalMetricsCalculator._metric_user_story_completion
metric_user_story_completion(project_id) ==
    LET rows == {us \in userstories : us.project_id = project_id}
        total == Cardinality(rows)
        closed == Cardinality({us \in rows : StatusIsClosed(us.status_id)})
        ratio == IF total # 0 THEN Divide(closed, total) ELSE <<0, 1>>
    IN [id |-> <<"userstory_completion", "_", Slug(project_id)>>,
        name |-> "Historias completadas",
        value |-> Round4(ratio),
        value_description |-> <<closed, "/", total, " historias cerradas">>,
        description |-> "Porcentaje de user stories en estado finalizado.",
        qualityFactors |-> <<"Planning">>,
        metadata |-> [total |-> total, closed |-> closed]]

\* InternalMetricsCalculator._metric_issue_resolution
metric_issue_resolution(project_id) ==
    LET rows == {i \in issues : i.project_id = project_id}
        total == Cardinality(rows)
        closed == Cardinality({i \in rows : StatusIsClosed(i.status_id)})
        recent_closed ==
            Cardinality({i \in rows : /\ StatusIsClosed(i.status_id)
                                      /\ Recent(i.finished_date, RecentIssueDays)})
        ratio == IF total # 0 THEN Divide(closed, total) ELSE <<0, 1>>
    IN [id |-> <<"issue_resolution", "_", Slug(project_id)>>,
        name |-> "Incidencias resueltas",
        value |-> Round4(ratio),
        value_description |-> <<closed, "/", total, " issues resueltos">>,
        description |-> "Estado de resolución de incidencias dentro del proyecto.",
        qualityFactors |-> <<"Quality">>,
        metadata |-> [total |-> total, closed |-> closed,
                      recent_closed |-> recent_closed]]

\* The columns of a LEFT JOIN that matched no row.
NullRow == [id |-> NULL, status_id |-> NoStatus, assigned_to_id |-> NULL]

\* LEFT JOIN <rows> r ON r.project_id = m.project_id AND r.assigned_to_id = u.id
LeftJoin(rows, m) ==
    LET matched == {r \in rows : /\ r.project_id = m.project_id
                                 /\ r.assigned_to_id = m.user_id}
    IN IF matched = {} THEN {NullRow} ELSE matched

\* The joined rows of one GROUP BY group: the memberships of user u in the
\* project, each with every pair of a task and a story assigned to u.
JoinedRows(project_id, u) ==
    UNION {{<<m, t, us>> : t \in LeftJoin(tasks, m), us \in LeftJoin(userstories, m)}
             : m \in {m \in memberships : /\ m.project_id = project_id
                                          /\ m.user_id # NULL
                                          /\ m.user_id = u}}

\* One row of the per-member query: COUNT(r.id) FILTER (WHERE ...) counts the
\* joined rows whose id is not NULL and that pass the filter.
StudentRow(project_id, u) ==
    LET joined == JoinedRows(project_id, u)
    IN [user_id |-> u,
        username |-> Username(u),
        full_name |-> IF FullName(u) = EmptyString THEN Username(u) ELSE FullName(u),
        assigned_tasks |->
            Cardinality({j \in joined : j[2].id # NULL /\ j[2].assigned_to_id = u}),
        closed_tasks |->
            Cardinality({j \in joined : /\ j[2].id # NULL /\ j[2].assigned_to_id = u
                                        /\ StatusIsClosed(j[2].status_id)}),
        assigned_stories |->
            Cardinality({j \in joined : j[3].id # NULL /\ j[3].assigned_to_id = u}),
        closed_stories |->
            Cardinality({j \in joined : /\ j[3].id # NULL /\ j[3].assigned_to_id = u
                                        /\ StatusIsClosed(j[3].status_id)})]

\* The collation of the names of the model: "Name ..." sorts before
\* "user ...", and two names of one kind sort by their number.
NameBefore(a, b) == IF a[1] = b[1] THEN a[2] < b[2] ELSE a[1] = "Name"

\* ORDER BY full_name ASC
RECURSIVE OrderByFullName(_)
OrderByFullName(rows) ==
    IF rows = {} THEN << >>
    ELSE LET first == CHOOSE r \in rows :
                         \A s \in rows \ {r} : NameBefore(r.full_name, s.full_name)
         IN <<first>> \o OrderByFullName(rows \ {first})

\* Variant of student_metric whose id leaves the username out.
student_metric_unkeyed(username, display_name, metric_key, label, value) ==
    LET display == IF display_name # EmptyString THEN display_name ELSE username
    IN [id |-> <<metric_key, "_">>,
        name |-> <<label, " · ">> \o display,
        value |-> 10000 * value,
        value_description |-> <<value>>,
        description |-> <<label, " de ">> \o display,
        qualityFactors |-> <<"Team">>,
        date |-> now,
        student |-> username,
        student_display |-> display,
        metadata |-> [student |-> username, student_display |-> display,
                      metric |-> metric_key]]

\* InternalMetricsCalculator._student_metric; the date is the minute of the
\* store clock.
student_metric(username, display_name, metric_key, label, value) ==
    LET display == IF display_name # EmptyString THEN display_name ELSE username
    IN [id |-> <<metric_key, "_", username>>,
        name |-> IF display # EmptyString THEN <<label, " · ">> \o display
                 ELSE <<label>>,
        value |-> 10000 * value,
        value_description |-> <<value>>,
        description |-> IF display # EmptyString THEN <<label, " de ">> \o display
                        ELSE <<label>>,
        qualityFactors |-> <<"Team">>,
        date |-> now,
        student |-> username,
        student_display |-> display,
        metadata |-> [student |-> username, student_display |-> display,
                      metric |-> metric_key]]

\* The four entries _build_student_metrics makes of one row.
StudentMetricsOfRow(row) ==
    <<student_metric(row.username, row.full_name, "assignedtasks",
                     "Tareas asignadas", row.assigned_tasks),
      student_metric(row.username, row.full_name, "closedtasks",
                     "Tareas cerradas", row.closed_tasks),
      student_metric(row.username, row.full_name, "totalus",
                     "Historias asignadas", row.assigned_stories),
      student_metric(row.username, row.full_name, "completedus",
                     "Historias finalizadas", row.closed_stories)>>

\* InternalMetricsCalculator._build_student_metrics: the students and the
\* flattened metric entries.
build_student_metrics(project_id) ==
    LET members == {m.user_id : m \in {m \in memberships :
                                          /\ m.project_id = project_id
                                          /\ m.user_id # NULL}}
        results == OrderByFullName({StudentRow(project_id, u) : u \in members})
    IN [students |->
            [i \in 1..Len(results) |->
                [username |-> results[i].username,
                 name |-> results[i].full_name,
                 displayName |-> results[i].full_name,
                 identities |-> [TAIGA |-> [username |-> results[i].username]],
                 metrics |-> StudentMetricsOfRow(results[i])]],
        metric_entries |->
            [i \in 1..(4 * Len(results)) |->
                StudentMetricsOfRow(results[((i - 1) \div 4) + 1])[((i - 1) % 4) + 1]]]

\* InternalMetricsCalculator._build_metric_categories; thresholds in
\* ten-thousandths.
build_metric_categories ==
    <<[name |-> "Delivery", upperThreshold |-> 5000, color |-> "#EF4444", type |-> "percentage"],
      [name |-> "Delivery", upperThreshold |-> 8000, color |-> "#F59E0B", type |-> "percentage"],
      [name |-> "Delivery", upperThreshold |-> 10000, color |-> "#22C55E", type |-> "percentage"],
      [name |-> "Planning", upperThreshold |-> 5000, color |-> "#EF4444", type |-> "percentage"],
      [name |-> "Planning", upperThreshold |-> 8000, color |-> "#F59E0B", type |-> "percentage"],
      [name |-> "Planning", upperThreshold |-> 10000, color |-> "#22C55E", type |-> "percentage"],
      [name |-> "Quality", upperThreshold |-> 5000, color |-> "#EF4444", type |-> "percentage"],
      [name |-> "Quality", upperThreshold |-> 8000, color |-> "#F59E0B", type |-> "percentage"],
      [name |-> "Quality", upperThreshold |-> 10000, color |-> "#22C55E", type |-> "percentage"],
      [name |-> "Team", upperThreshold |-> 1000000, color |-> "#8B5CF6", type |-> "absolute"]>>

\* The last entry of metrics that has a total and whose id starts with the
\* prefix, or 0.
LastWithTotal(metrics, prefix) ==
    LET hits == {i \in DOMAIN metrics : /\ "total" \in DOMAIN metrics[i].metadata
                                        /\ metrics[i].id[1] = prefix}
    IN IF hits = {} THEN 0 ELSE CHOOSE i \in hits : \A j \in hits : j <= i

\* InternalMetricsCalculator._build_hours_breakdown
build_hours_breakdown(metrics) ==
    LET t == LastWithTotal(metrics, "task_completion")
        i == LastWithTotal(metrics, "issue_resolution")
        total_tasks == IF t = 0 THEN 0 ELSE metrics[t].metadata.total
        closed_tasks == IF t = 0 THEN 0 ELSE metrics[t].metadata.closed
        total_issues == IF i = 0 THEN 0 ELSE metrics[i].metadata.total
        closed_issues == IF i = 0 THEN 0 ELSE metrics[i].metadata.closed
    IN [execution |-> closed_tasks,
        pending |-> Max(total_tasks - closed_tasks, 0),
        quality |-> closed_issues,
        incidents |-> Max(total_issues - closed_issues, 0)]

\* Variant of is_new_project that does not look at the student entries.
is_new_project_ignoring_students(metrics, student_entries) ==
    ~\E i \in DOMAIN metrics :
         /\ "total" \in DOMAIN metrics[i].metadata
         /\ metrics[i].metadata.total # 0

\* InternalMetricsCalculator._is_new_project
is_new_project(metrics, student_entries) ==
    IF \E i \in DOMAIN metrics :
          /\ "total" \in DOMAIN metrics[i].metadata
          /\ metrics[i].metadata.total # 0
    THEN FALSE
    ELSE Len(student_entries) = 0

\* The queries of build_snapshot, in the order they run; the three of
\* _build_historical_payload count as one.
BuilderSteps ==
    <<"_metric_task_completion", "_metric_user_story_completion",
      "_metric_issue_resolution", "_build_student_metrics",
      "_build_historical_payload">>

Raising == {"none"} \cup {BuilderSteps[i] : i \in DOMAIN BuilderSteps}

\* InternalMetricsCalculator(project).build_snapshot() when the query of the
\* step named raising fails.  No step is wrapped in a handler, so the error
\* of a query leaves build_snapshot; without a failure the payload is built.
\* The series of the historical payload are not part of the result here.
build_snapshot(project_id, raising) ==
    IF raising # "none"
    THEN [raised |-> "DatabaseError"]
    ELSE LET metrics == <<metric_task_completion(project_id),
                          metric_user_story_completion(project_id),
                          metric_issue_resolution(project_id)>>
             student == build_student_metrics(project_id)
             all == metrics \o student.metric_entries
         IN [payload |->
               [project_slug |-> Slug(project_id),
                project_name |-> ProjectName(project_id),
                external_project_id |-> Slug(project_id),
                metrics |-> all,
                students |-> student.students,
                metrics_categories |-> build_metric_categories,
                strategic_indicators |-> << >>,
                quality_factors |-> << >>,
                hours |-> build_hours_breakdown(all),
                errors |-> EmptyDict,
                is_new_project |-> is_new_project(all, student.metric_entries)]]

\* calculator.build_snapshot(): the result, and the result returned last
\* before this call (None before the first).  A behaviour builds any number
\* of snapshots; a query fails in its first build only, since what a failing
\* build does is the same after any earlier build.
BuildSnapshot(project_id, raising) ==
    /\ metric.call \in {"", "build_snapshot"}
    /\ raising # "none" => metric.call = ""
    /\ metric' = [call |-> "build_snapshot", project_id |-> project_id,
                  raising |-> raising,
                  result |-> build_snapshot(project_id, raising),
                  previous |-> IF metric.call # "build_snapshot" THEN None
                               ELSE IF "payload" \in DOMAIN metric.result
                                    THEN metric.result
                                    ELSE metric.previous]
    /\ UNCHANGED <<dataVars, sprint>>
    /\ UNCHANGED storeVars

----------------------------------------------------------------------------
\* The registered per-student share metrics.

\* BaseStudentMetric.__init__(self, project): the parameters after self.
BaseStudentMetricInit == <<"project">>

\* cls(project, context) of a student metric class of metrics_impl: its
\* __init__ calls super().__init__(project, context), and a call with more
\* positional arguments than the base __init__ takes raises TypeError.
StudentMetricInstance(cls, project_id, context) ==
    LET passed == <<project_id, context>>
    IN IF Len(passed) > Len(BaseStudentMetricInit)
       THEN [raised |-> "TypeError"]
       ELSE [cls |-> cls, project |-> project_id, context |-> context]

\* AssignedTasksStudentMetric.get_value_for_user
AssignedTasksStudentMetric(user_data, context) ==
    LET user_assigned == user_data.assigned_tasks
        total == context.total_tasks
    IN IF total > 0 THEN Divide(user_assigned, total) ELSE <<0, 1>>

\* AssignedStoriesStudentMetric.get_value_for_user
AssignedStoriesStudentMetric(user_data, context) ==
    LET user_assigned == user_data.assigned_stories
        total == context.total_stories
    IN IF total > 0 THEN Divide(user_assigned, total) ELSE <<0, 1>>

get_value_for_user(cls, user_data, context) ==
    CASE cls = "AssignedTasksStudentMetric" ->
            AssignedTasksStudentMetric(user_data, context)
      [] cls = "AssignedStoriesStudentMetric" ->
            AssignedStoriesStudentMetric(user_data, context)

RECURSIVE SumOf(_, _)
SumOf(rows, column) ==
    IF rows = {} THEN 0
    ELSE LET r == CHOOSE r \in rows : TRUE
         IN r[column] + SumOf(rows \ {r}, column)

\* A share metric calculated for every member row of the project, with the
\* sums of the assigned counts of the rows as the context: the class is
\* instantiated, then asked for the value of each row.
CalculateStudentMetric(cls, project_id) ==
    /\ metric.call \in {"", cls}
    /\ LET rows == {StudentRow(project_id, m.user_id) :
                       m \in {m \in memberships : /\ m.project_id = project_id
                                                  /\ m.user_id # NULL}}
           context == [total_tasks |-> SumOf(rows, "assigned_tasks"),
                       total_stories |-> SumOf(rows, "assigned_stories")]
           instance == StudentMetricInstance(cls, project_id, context)
           results == OrderByFullName(rows)
       IN metric' = [call |-> cls, project_id |-> project_id, context |-> context,
                     result |->
                        IF "raised" \in DOMAIN instance THEN instance
                        ELSE [values |->
                                [i \in 1..Len(results) |->
                                    get_value_for_user(cls, results[i], context)]]]
    /\ UNCHANGED <<dataVars, sprint>>
    /\ UNCHANGED storeVars

----------------------------------------------------------------------------
\* The metric registries of base.py and the decorators that fill them.

MaxRegistrations == 3   \* register_* calls of a behaviour

\* No user, an empty session and no request yet.
NoResponse == [call |-> ""]
AuthIdle ==
    /\ users = {}
    /\ session = {}
    /\ response = NoResponse

\* The registries when base.py has been loaded and no class is registered.
RegistryEmpty ==
    /\ metric_registry = << >>
    /\ student_metric_registry = << >>
    /\ historical_metric_registry = << >>
    /\ returned = None
    /\ registrations = << >>

STUDENT_METRIC_REGISTRY ==
    <<"AssignedTasksStudentMetric", "ClosedTasksStudentMetric",
      "AssignedStoriesStudentMetric", "CompletedStoriesStudentMetric">>

HISTORICAL_METRIC_REGISTRY ==
    <<"TaskCompletionHistoricalMetric", "TaskVsIssueHistoricalMetric",
      "UserActivityHistoricalMetric", "UserStoryPointsHistoricalMetric",
      "RoleStoryPointsHistoricalMetric", "UserStoriesClosedHistoricalMetric",
      "SprintVelocityHistoricalMetric">>

\* The registries once metrics_impl has been imported: its decorators ran in
\* the order of the module.
RegistryImported ==
    /\ metric_registry = METRIC_REGISTRY
    /\ student_metric_registry = STUDENT_METRIC_REGISTRY
    /\ historical_metric_registry = HISTORICAL_METRIC_REGISTRY
    /\ returned = STUDENT_METRIC_REGISTRY[Len(STUDENT_METRIC_REGISTRY)]
    /\ registrations =
          [i \in DOMAIN METRIC_REGISTRY |-> <<"register_metric", METRIC_REGISTRY[i]>>]
          \o [i \in DOMAIN HISTORICAL_METRIC_REGISTRY |->
                <<"register_historical_metric", HISTORICAL_METRIC_REGISTRY[i]>>]
          \o [i \in DOMAIN STUDENT_METRIC_REGISTRY |->
                <<"register_student_metric", STUDENT_METRIC_REGISTRY[i]>>]

\* Variant of register_student_metric that appends to METRIC_REGISTRY.
register_student_metric_as_project(metric_class) ==
    /\ Len(registrations) < MaxRegistrations
    /\ metric_registry' = Append(metric_registry, metric_class)
    /\ returned' = metric_class
    /\ registrations' = Append(registrations, <<"register_student_metric", metric_class>>)
    /\ UNCHANGED <<student_metric_registry, historical_metric_registry>>
    /\ UNCHANGED <<milestones, tasks, userstories, issues, memberships, authVars,
                   sprint, metric>>
    /\ UNCHANGED storeVars

register_metric(metric_class) ==
    /\ Len(registrations) < MaxRegistrations
    /\ metric_registry' = Append(metric_registry, metric_class)
    /\ returned' = metric_class
    /\ registrations' = Append(registrations, <<"register_metric", metric_class>>)
    /\ UNCHANGED <<student_metric_registry, historical_metric_registry>>
    /\ UNCHANGED <<milestones, tasks, userstories, issues, memberships, authVars,
                   sprint, metric>>
    /\ UNCHANGED storeVars

register_student_metric(metric_class) ==
    /\ Len(registrations) < MaxRegistrations
    /\ student_metric_registry' = Append(student_metric_registry, metric_class)
    /\ returned' = metric_class
    /\ registrations' = Append(registrations, <<"register_student_metric", metric_class>>)
    /\ UNCHANGED <<metric_registry, historical_metric_registry>>
    /\ UNCHANGED <<milestones, tasks, userstories, issues, memberships, authVars,
                   sprint, metric>>
    /\ UNCHANGED storeVars

register_historical_metric(metric_class) ==
    /\ Len(registrations) < MaxRegistrations
    /\ historical_metric_registry' = Append(historical_metric_registry, metric_class)
    /\ returned' = metric_class
    /\ registrations' =
          Append(registrations, <<"register_historical_metric", metric_class>>)
    /\ UNCHANGED <<metric_registry, student_metric_registry>>
    /\ UNCHANGED <<milestones, tasks, userstories, issues, memberships, authVars,
                   sprint, metric>>
    /\ UNCHANGED storeVars

----------------------------------------------------------------------------
\* get_adaptive_interval of metrics_impl, on tasks_task.created_date.

\* EXTRACT(DAY FROM (MAX(created_date) - MIN(created_date))) over the tasks
\* of the project that have a created_date: the whole days of the interval,
\* and NULL (NoDate) when no row is left.
DataRangeDays(project_id) ==
    LET dates == {t.created_date : t \in {t \in tasks : /\ t.project_id = project_id
                                                        /\ t.created_date # NoDate}}
    IN IF dates = {} THEN NoDate
       ELSE LET latest == CHOOSE d \in dates : \A e \in dates : e <= d
                earliest == CHOOSE d \in dates : \A e \in dates : d <= e
            IN (latest - earliest) \div HoursPerDay

\* Variant of get_adaptive_interval whose thresholds are inclusive.
get_adaptive_interval_inclusive(project_id) ==
    LET row0 == DataRangeDays(project_id)
        data_range == IF row0 # NoDate /\ row0 # 0 THEN row0 ELSE 0
    IN IF data_range <= 30 THEN <<"day", 90>>
       ELSE IF data_range <= 180 THEN <<"week", 180>>
       ELSE <<"month", 360>>

\* get_adaptive_interval(project_id): row[0] if row and row[0] else 0, then
\* the thresholds.
get_adaptive_interval(project_id) ==
    LET row0 == DataRangeDays(project_id)
        data_range == IF row0 # NoDate /\ row0 # 0 THEN row0 ELSE 0
    IN IF data_range < 30 THEN <<"day", 90>>
       ELSE IF data_range < 180 THEN <<"week", 180>>
       ELSE <<"month", 360>>

GetAdaptiveInterval(project_id) ==
    /\ metric.call \in {"", "get_adaptive_interval"}
    /\ metric' = [call |-> "get_adaptive_interval", project_id |-> project_id,
                  result |-> get_adaptive_interval(project_id)]
    /\ UNCHANGED <<dataVars, sprint>>
    /\ UNCHANGED storeVars

----------------------------------------------------------------------------
\* The historical metrics of metrics_impl: TaskCompletionHistoricalMetric and
\* UserActivityHistoricalMetric.  A date is a day number, day 0 being Monday
\* 2024-01-01; a timestamp is an hour number, hour 0 being that day's midnight.

\* The day numbers of the first days of the months of 2024.
MonthStarts == <<0, 31, 60, 91, 121, 152, 182, 213, 244, 274, 305, 335>>

\* DATE_TRUNC(interval_name, ts)::date
date_trunc(interval_name, ts) ==
    LET day == ts \div HoursPerDay
    IN CASE interval_name = "day" -> day
         [] interval_name = "week" -> day - (day % 7)
         [] interval_name = "month" ->
                CHOOSE s \in {MonthStarts[m] : m \in 1..12} :
                    /\ s <= day
                    /\ \A r \in {MonthStarts[m] : m \in 1..12} : r <= day => r <= s

\* date.isoformat(): year, month and day of the month, as 'YYYY-MM-DD' lists them.
isoformat(day) ==
    LET month == Cardinality({m \in 1..12 : MonthStarts[m] <= day})
    IN <<2024, month, (day - MonthStarts[month]) + 1>>

\* COALESCE(t.finished_date, t.created_date)
FinishedOrCreated(t) ==
    IF t.finished_date # NoDate THEN t.finished_date ELSE t.created_date

\* The WHERE clause both queries share: the tasks of the project whose date
\* is not older than NOW() - INTERVAL 'interval_days days'.
HistoricalTasks(project_id, interval_days) ==
    {t \in tasks : /\ t.project_id = project_id
                   /\ FinishedOrCreated(t) # NoDate
                   /\ FinishedOrCreated(t) >= NowHours - interval_days * HoursPerDay}

\* Variant of BucketBefore that orders by username first.
BucketBeforeByUsername(a, b) ==
    \/ a.username < b.username
    \/ a.username = b.username /\ a.bucket < b.bucket

\* ORDER BY bucket, u.username (the username of user u is "user<u>").
BucketBefore(a, b) ==
    \/ a.bucket < b.bucket
    \/ a.bucket = b.bucket /\ a.username < b.username

\* The rows of a query in the order of its ORDER BY clause.
RECURSIVE OrderByBucket(_)
OrderByBucket(rows) ==
    IF rows = {} THEN << >>
    ELSE LET first == CHOOSE r \in rows : \A s \in rows \ {r} : BucketBefore(r, s)
         IN <<first>> \o OrderByBucket(rows \ {first})

\* TaskCompletionHistoricalMetric.calculate_series: GROUP BY bucket.
TaskCompletionHistoricalMetric(project_id) ==
    LET interval == get_adaptive_interval(project_id)
        selected == HistoricalTasks(project_id, interval[2])
        Bucket(t) == date_trunc(interval[1], FinishedOrCreated(t))
        rows == {[bucket |-> b, username |-> NULL,
                  total |-> Cardinality({t \in selected : Bucket(t) = b}),
                  closed |-> Cardinality({t \in selected :
                                /\ Bucket(t) = b
                                /\ StatusIsClosed(t.status_id)})]
                 : b \in {Bucket(t) : t \in selected}}
        Point(row) == [id |-> "task_completion", name |-> "Cierre de tareas",
                       date |-> isoformat(row.bucket),
                       value |-> Round4(Ratio(row.closed, row.total, <<0, 1>>)),
                       interval |-> interval[1]]
        ordered == OrderByBucket(rows)
    IN "task_completion" :> [i \in 1..Len(ordered) |-> Point(ordered[i])]

\* UserActivityHistoricalMetric.calculate_series: GROUP BY bucket, u.username
\* over the tasks that are assigned to a user.
UserActivityHistoricalMetric(project_id) ==
    LET interval == get_adaptive_interval(project_id)
        selected == {t \in HistoricalTasks(project_id, interval[2]) :
                        t.assigned_to_id # NULL}
        Bucket(t) == date_trunc(interval[1], FinishedOrCreated(t))
        Group(b, u) == {t \in selected : Bucket(t) = b /\ t.assigned_to_id = u}
        rows == {[bucket |-> Bucket(t), username |-> t.assigned_to_id,
                  assigned_tasks |-> Cardinality(Group(Bucket(t), t.assigned_to_id)),
                  closed_tasks |-> Cardinality({s \in Group(Bucket(t), t.assigned_to_id) :
                                        StatusIsClosed(s.status_id)})]
                 : t \in selected}
        Point(row) == [id |-> "user_closed_tasks",
                       name |-> "Tareas cerradas por usuario",
                       date |-> isoformat(row.bucket),
                       value |-> Round4(Ratio(row.closed_tasks, row.assigned_tasks, <<0, 1>>)),
                       student |-> Username(row.username),
                       interval |-> interval[1],
                       metadata |-> [closed |-> row.closed_tasks,
                                     assigned |-> row.assigned_tasks]]
        ordered == OrderByBucket(rows)
    IN "user_closed_tasks" :> [i \in 1..Len(ordered) |-> Point(ordered[i])]

\* metric_class(project).calculate_series()
calculate_series(cls, project_id) ==
    CASE cls = "TaskCompletionHistoricalMetric" ->
            TaskCompletionHistoricalMetric(project_id)
      [] cls = "UserActivityHistoricalMetric" ->
            UserActivityHistoricalMetric(project_id)

CalculateSeries(cls, project_id) ==
    /\ metric.call \in {"", "calculate_series"}
    /\ metric' = [call |-> "calculate_series", cls |-> cls,
                  project_id |-> project_id,
                  result |-> calculate_series(cls, project_id)]
    /\ UNCHANGED <<dataVars, sprint>>
    /\ UNCHANGED storeVars

----------------------------------------------------------------------------
\* The internal branch of the list and historical endpoints of api.py.  The
\* value of the refresh parameter is the sequence of its characters; the
\* query parameters of a request are a set of <<name, value>> pairs.

UpperCase == <<"A", "B", "C", "D", "E", "F", "G", "H", "I", "J", "K", "L", "M",
               "N", "O", "P", "Q", "R", "S", "T", "U", "V", "W", "X", "Y", "Z">>
LowerCase == <<"a", "b", "c", "d", "e", "f", "g", "h", "i", "j", "k", "l", "m",
               "n", "o", "p", "q", "r", "s", "t", "u", "v", "w", "x", "y", "z">>

\* Variant of lower that leaves the string as it is.
lower_identity(s) == s

\* str.lower()
lower(s) ==
    [i \in 1..Len(s) |->
        IF \E k \in 1..26 : UpperCase[k] = s[i]
        THEN LowerCase[CHOOSE k \in 1..26 : UpperCase[k] = s[i]]
        ELSE s[i]]

\* refresh_flag = (request.QUERY_PARAMS.get("refresh") or "").lower()
refresh_flag(query) ==
    lower(IF \E kv \in query : kv[1] = "refresh"
          THEN (CHOOSE kv \in query : kv[1] = "refresh")[2]
          ELSE EmptyString)

\* force_refresh = refresh_flag in ("1", "true", "yes")
force_refresh(query) ==
    refresh_flag(query) \in {<<"1">>, <<"t", "r", "u", "e">>, <<"y", "e", "s">>}

\* The request enters get_or_build_snapshot(project, use_cache=not
\* force_refresh, force=force_refresh): lines 534-542 of internal.py, as Begin.
InternalRequest(c, endpoint, p, query) ==
    /\ pc[c] = "idle"
    /\ \A d \in Calls : d < c => pc[d] # "idle"
    /\ started < MaxStarts
    /\ started' = started + 1
    /\ args' = [args EXCEPT ![c] = [project |-> p,
                                    use_cache |-> ~force_refresh(query),
                                    force |-> force_refresh(query),
                                    endpoint |-> endpoint,
                                    query |-> query]]
    /\ cutoff' = [cutoff EXCEPT ![c] = Cutoff(now, ttl_minutes)]
    /\ pc' = [pc EXCEPT ![c] =
                IF UsesCache(~force_refresh(query), force_refresh(query))
                THEN "lookup" ELSE "build"]
    /\ alone' = [d \in Calls |->
                   IF d = c THEN \A e \in Calls \ {c} : ~InFlight(e)
                   ELSE IF pc[d] = "idle" THEN alone[d] ELSE FALSE]
    /\ UNCHANGED <<settings, now, ticks, snapshots, next_id, snapshot, built>>
    /\ UNCHANGED dbVars

\* MetricsViewSet.list with provider "internal", up to the call of
\* get_or_build_snapshot; the call goes on with Lookup, Create and Prune.
ListInternal(c, query) ==
    /\ <<"source", "internal">> \in query
    /\ InternalRequest(c, "list", TheProject, query)

\* MetricsViewSet.historical with provider "internal", likewise.
HistoricalInternal(c, query) ==
    /\ <<"source", "internal">> \in query
    /\ InternalRequest(c, "historical", TheProject, query)

----------------------------------------------------------------------------
\* login_with_google of taiga/auth/providers/google.py.  A dict is a set of
\* <<key, value>> pairs; an email address is the sequence of the parts that
\* '@' separates, each part the sequence of its characters, as are a domain
\* and a username.

\* d.get(key, default)
get(d, key, default) ==
    IF \E kv \in d : kv[1] = key THEN (CHOOSE kv \in d : kv[1] = key)[2] ELSE default

\* The module constants, read from settings.GOOGLE_AUTH.
CONFIG == getattr(settings, "GOOGLE_AUTH", {})
CLIENT_IDS == get(CONFIG, "CLIENT_IDS", {})
ALLOWED_DOMAINS ==
    {lower(domain) : domain \in {d \in get(CONFIG, "ALLOWED_DOMAINS", {}) : d # EmptyString}}
AUTO_CREATE_USERS == get(CONFIG, "AUTO_CREATE_USERS", TRUE)

\* The characters _USERNAME_SANITIZER keeps, once the value is in lower case.
UsernameChars ==
    {LowerCase[k] : k \in 1..26}
    \cup {"0", "1", "2", "3", "4", "5", "6", "7", "8", "9", ".", "_", "-"}

\* s.strip(".-")
RECURSIVE StripDotsAndDashes(_)
StripDotsAndDashes(s) ==
    IF s = << >> THEN s
    ELSE IF Head(s) \in {".", "-"} THEN StripDotsAndDashes(Tail(s))
    ELSE IF s[Len(s)] \in {".", "-"} THEN StripDotsAndDashes(SubSeq(s, 1, Len(s) - 1))
    ELSE s

\* re.sub(r"-+", "-", s)
RECURSIVE CollapseDashes(_)
CollapseDashes(s) ==
    IF Len(s) < 2 THEN s
    ELSE IF s[1] = "-" /\ s[2] = "-" THEN CollapseDashes(Tail(s))
    ELSE <<s[1]>> \o CollapseDashes(Tail(s))

_normalise_username(value) ==
    LET lowered == lower(value)
        sanitised == [i \in 1..Len(lowered) |->
                        IF lowered[i] \in UsernameChars THEN lowered[i] ELSE "-"]
        cleaned == CollapseDashes(StripDotsAndDashes(sanitised))
    IN IF cleaned # << >> THEN cleaned ELSE <<"u", "s", "e", "r">>

\* str(suffix), for the suffixes below ten.
DecimalDigits == <<"1", "2", "3", "4", "5", "6", "7", "8", "9">>

\* The loop tries base, base-1, base-2, ... and returns the first free name.
_build_unique_username(email_local_part) ==
    LET base == _normalise_username(email_local_part)
        taken == {u.username : u \in users}
        Candidate(suffix) == base \o <<"-", DecimalDigits[suffix]>>
    IN IF base \notin taken THEN base
       ELSE Candidate(CHOOSE k \in 1..9 :
                /\ Candidate(k) \notin taken
                /\ \A j \in 1..(k - 1) : Candidate(j) \in taken)

\* _extract_full_name for the payloads without given_name and family_name:
\* the name, or the empty string.
_extract_full_name(payload) == get(payload, "name", "")

\* _verify_credential: the message of the BadRequest it raises, or "" when
\* it returns the payload of the token.
_verify_credential(token) ==
    IF token = "missing" THEN "Missing Google credential."
    ELSE IF token = "invalid" THEN "Invalid Google credential."
    ELSE ""

\* _ensure_domain_allowed: the message of the BadRequest it raises, or "".
_ensure_domain_allowed(email, hosted_domain) ==
    LET email_domain == lower(email[Len(email)])
    IN IF ALLOWED_DOMAINS # {} /\ email_domain \notin ALLOWED_DOMAINS
       THEN "Your Google account is not allowed to sign in."
       ELSE IF /\ hosted_domain # EmptyString
               /\ ALLOWED_DOMAINS # {}
               /\ lower(hosted_domain) \notin ALLOWED_DOMAINS
       THEN "Your Google Workspace domain is not allowed."
       ELSE ""

\* email.lower(), part by part
lower_email(email) == [i \in 1..Len(email) |-> lower(email[i])]

\* _create_user_from_payload: the row user.save() inserts.
_create_user_from_payload(email, payload) ==
    [id |-> Cardinality(users) + 1,
     username |-> _build_unique_username(email[1]),
     email |-> email,
     full_name |-> _extract_full_name(payload),
     verified_email |-> TRUE,
     is_active |-> TRUE,
     is_system |-> FALSE]

\* Variant of _get_or_create_user that ignores AUTO_CREATE_USERS.
_get_or_create_user_always(email, payload) ==
    LET found == {u \in users : lower_email(u.email) = lower_email(email)}
    IN IF found = {}
       THEN [raised |-> "", detail |-> "",
             users |-> users \cup {_create_user_from_payload(email, payload)},
             user |-> Cardinality(users) + 1]
       ELSE [raised |-> "BadRequest", detail |-> "This user account is disabled.",
             users |-> users, user |-> 0]

\* _get_or_create_user: what it raises, the table it leaves and the id of the
\* user it returns.
_get_or_create_user(email, payload) ==
    LET found == {u \in users : lower_email(u.email) = lower_email(email)}
    IN IF found = {}
       THEN IF ~AUTO_CREATE_USERS
            THEN [raised |-> "BadRequest",
                  detail |-> "This Google account is not associated with a Taiga user.",
                  users |-> users, user |-> 0]
            ELSE [raised |-> "", detail |-> "",
                  users |-> users \cup {_create_user_from_payload(email, payload)},
                  user |-> Cardinality(users) + 1]
       ELSE IF Cardinality(found) > 1
       THEN [raised |-> "MultipleObjectsReturned", detail |-> "",
             users |-> users, user |-> 0]
       ELSE LET user == CHOOSE u \in found : TRUE
                new_full_name == _extract_full_name(payload)
                saved == [user EXCEPT
                            !.verified_email = TRUE,
                            !.full_name = IF new_full_name # "" /\ user.full_name = ""
                                          THEN new_full_name ELSE user.full_name]
            IN IF ~user.is_active \/ user.is_system
               THEN [raised |-> "BadRequest", detail |-> "This user account is disabled.",
                     users |-> users, user |-> 0]
               ELSE [raised |-> "", detail |-> "",
                     users |-> (users \ {user}) \cup {saved}, user |-> user.id]

\* login_with_google(request): the checks in their order; the token is what
\* _verify_credential makes of request.DATA, the payload what Google signed.
login_with_google(token, payload) ==
    LET BadRequest(detail) ==
            [raised |-> "BadRequest", detail |-> detail, users |-> users, user |-> 0]
        email == get(payload, "email", EmptyString)
    IN IF _verify_credential(token) # ""
       THEN BadRequest(_verify_credential(token))
       ELSE IF get(payload, "aud", "") \notin CLIENT_IDS
       THEN BadRequest("Invalid Google credential.")
       ELSE IF get(payload, "iss", "")
                 \notin {"accounts.google.com", "https://accounts.google.com"}
       THEN BadRequest("Invalid Google credential.")
       ELSE IF <<"email_verified", TRUE>> \notin payload
       THEN BadRequest("Google has not verified this email address.")
       ELSE IF email = EmptyString
       THEN BadRequest("Google did not return an email address.")
       ELSE IF _ensure_domain_allowed(email, get(payload, "hd", EmptyString)) # ""
       THEN BadRequest(_ensure_domain_allowed(email, get(payload, "hd", EmptyString)))
       ELSE _get_or_create_user(lower_email(email), payload)

\* One login of the client: the exception propagates to the caller, the
\* table is what the call left.
LoginWithGoogle(token, payload) ==
    /\ response = NoResponse
    /\ LET outcome == login_with_google(token, payload)
       IN /\ users' = outcome.users
          /\ response' = [call |-> "login_with_google", token |-> token,
                          payload |-> payload, raised |-> outcome.raised,
                          detail |-> outcome.detail, user |-> outcome.user,
                          before |-> users]
    /\ UNCHANGED <<milestones, tasks, userstories, issues, memberships, registryVars,
                   session, sprint, metric>>
    /\ UNCHANGED storeVars

----------------------------------------------------------------------------
\* The authentication endpoints of MetricsViewSet (api.py) and the external
\* branch of list and historical.  A request is its DATA and QUERY_PARAMS
\* dicts, whether request.user is authenticated, and what the gessi-dashboard
\* backend answers to it; the values of source are lower-case and trimmed.

SESSION_KEY == "ld_metrics_auth"
DEFAULT_PROVIDER == getattr(settings, "METRICS_PROVIDER", "external")

\* request.user.username
RequestUser == "owner"

\* _resolve_provider(request)
_resolve_provider(data, query) ==
    LET source == IF get(data, "source", "") # "" THEN get(data, "source", "")
                  ELSE get(query, "source", "")
    IN IF source \in {"internal", "external"} THEN source
       ELSE IF DEFAULT_PROVIDER # "" THEN DEFAULT_PROVIDER ELSE "external"

\* _ensure_authenticated(request)
_ensure_authenticated(sess) == get(sess, SESSION_KEY, None)

\* _store_session_auth(request, username, external_project_id)
_store_session_auth(sess, username, external_project_id) ==
    {kv \in sess : kv[1] # SESSION_KEY}
    \cup {<<SESSION_KEY,
            [username |-> username,
             external_project_id |-> IF external_project_id # "" THEN external_project_id
                                     ELSE username]>>}

\* Variant of _clear_session_auth that keeps the entry.
_clear_session_auth_never(sess) == sess

\* _clear_session_auth(request)
_clear_session_auth(sess) == {kv \in sess : kv[1] # SESSION_KEY}

\* a or b or c, for strings
Or3(a, b, c) == IF a # "" THEN a ELSE IF b # "" THEN b ELSE c

\* MetricsViewSet.login: the session it leaves, the HTTP status and the body.
login(request) ==
    LET provider == _resolve_provider(request.data, request.query)
        data == request.data
        username == get(data, "username", "")
    IN IF provider = "internal"
       THEN IF ~request.is_authenticated
            THEN [session |-> session, status |-> 401,
                  body |-> [error |-> "METRICS.ERROR_AUTH_REQUIRED"]]
            ELSE [session |-> _store_session_auth(session,
                                  Or3(username, RequestUser, RequestUser),
                                  Or3(get(data, "project", ""), get(data, "external", ""),
                                      RequestUser)),
                  status |-> 200,
                  body |-> [status |-> "authenticated",
                            username |-> Or3(username, RequestUser, RequestUser),
                            provider |-> provider]]
       ELSE IF ~request.is_authenticated
       THEN [session |-> session, status |-> 401,
             body |-> [error |-> "METRICS.ERROR_AUTH_REQUIRED"]]
       ELSE IF username = ""
       THEN [session |-> session, status |-> 400,
             body |-> [error |-> "METRICS.ERROR_MISSING_USERNAME"]]
       ELSE IF request.backend = "unreachable"
       THEN [session |-> session, status |-> 400,
             body |-> [error |-> "METRICS.ERROR_METRICS_BACKEND_UNREACHABLE"]]
       ELSE IF request.backend = "404"
       THEN [session |-> session, status |-> 400,
             body |-> [error |-> "METRICS.ERROR_INVALID_PROJECT_ID"]]
       ELSE IF request.backend \in {"200 not json", "200 []"}
       THEN [session |-> session, status |-> 200,
             body |-> [status |-> "authenticated", username |-> username,
                       warning |-> "METRICS.ERROR_PROJECT_HAS_NO_METRICS"]]
       ELSE IF request.backend = "200 metrics"
       THEN [session |-> _store_session_auth(session, username,
                             Or3(get(data, "project", ""), username, username)),
             status |-> 200,
             body |-> [status |-> "authenticated", username |-> username]]
       ELSE [session |-> session, status |-> 500,
             body |-> [error |-> "METRICS.ERROR_BACKEND_ERROR"]]

\* MetricsViewSet.logout
logout(request) ==
    LET provider == _resolve_provider(request.data, request.query)
    IN IF provider = "internal"
       THEN [session |-> _clear_session_auth(session), status |-> 200,
             body |-> [status |-> "logged_out", provider |-> provider]]
       ELSE IF ~request.is_authenticated
       THEN [session |-> session, status |-> 401,
             body |-> [error |-> "METRICS.ERROR_AUTH_REQUIRED"]]
       ELSE [session |-> _clear_session_auth(session), status |-> 200,
             body |-> [status |-> "logged_out"]]

\* MetricsViewSet.status
status(request) ==
    LET provider == _resolve_provider(request.data, request.query)
        auth_state == _ensure_authenticated(session)
    IN IF provider = "internal"
       THEN IF ~request.is_authenticated
            THEN [session |-> session, status |-> 200,
                  body |-> [authenticated |-> FALSE, provider |-> provider]]
            ELSE [session |-> session, status |-> 200,
                  body |-> [authenticated |-> TRUE, username |-> RequestUser,
                            external_project_id |-> RequestUser,
                            provider |-> provider]]
       ELSE IF ~request.is_authenticated \/ auth_state = None
       THEN [session |-> session, status |-> 200, body |-> [authenticated |-> FALSE]]
       ELSE [session |-> session, status |-> 200,
             body |-> [authenticated |-> TRUE, username |-> auth_state.username,
                       external_project_id |-> auth_state.external_project_id]]

\* MetricsViewSet.list and MetricsViewSet.historical for the provider
\* "external": the project checks, the session check, then the answer
\* aggregated from the backend for the external project id.
external_metrics(request) ==
    LET auth_state == _ensure_authenticated(session)
    IN IF get(request.query, "project", "") = ""
       THEN [session |-> session, status |-> 400,
             body |-> [error |-> "METRICS.ERROR_PROJECT_REQUIRED"]]
       ELSE IF get(request.query, "project", "") # "project-1"
       THEN [session |-> session, status |-> 404, body |-> [error |-> "Http404"]]
       ELSE IF ~request.permitted
       THEN [session |-> session, status |-> 403, body |-> [error |-> "PermissionDenied"]]
       ELSE IF auth_state = None
       THEN [session |-> session, status |-> 401,
             body |-> [error |-> "METRICS.ERROR_METRICS_AUTH_REQUIRED"]]
       ELSE [session |-> session, status |-> 200,
             body |-> [project_slug |-> "project-1",
                       external_project_id |->
                           Or3(get(request.query, "external", ""),
                               auth_state.external_project_id, auth_state.username),
                       backend |-> request.backend,
                       provider |-> "external"]]

\* The client sends a request to one of the endpoints and takes the answer;
\* before is the session the request arrived with (history, not program state).
Handle(call, request, answer) ==
    /\ session' = answer.session
    /\ response' = [call |-> call, request |-> request,
                    provider |-> _resolve_provider(request.data, request.query),
                    status |-> answer.status, body |-> answer.body,
                    before |-> session]
    /\ UNCHANGED <<milestones, tasks, userstories, issues, memberships, registryVars,
                   users, sprint, metric>>
    /\ UNCHANGED storeVars

Login(request) == Handle("login", request, login(request))
Logout(request) == Handle("logout", request, logout(request))
Status(request) == Handle("status", request, status(request))
ListExternal(request) ==
    /\ _resolve_provider(request.data, request.query) = "external"
    /\ Handle("list", request, external_metrics(request))
HistoricalExternal(request) ==
    /\ _resolve_provider(request.data, request.query) = "external"
    /\ Handle("historical", request, external_metrics(request))

\* The student metric classes as objects: an instance keeps the counts of the
\* row it was last asked about, and its entry is stamped from them.

StatefulStudentMetrics == {"AssignedTasksStudentMetric", "ClosedTasksStudentMetric"}

metric_key(cls) ==
    IF cls = "AssignedTasksStudentMetric" THEN "assignedtasks" ELSE "closedtasks"

label(cls) ==
    IF cls = "AssignedTasksStudentMetric" THEN "Tareas asignadas"
    ELSE "Tareas cerradas"

\* The instance the calculation shares between the team members: the class
\* instantiated once with the project and the shared context, its count
\* fields as the __init__ of the class leaves them.
NewStudentMetric(cls, project_id, context) ==
    IF cls = "AssignedTasksStudentMetric"
    THEN [cls |-> cls, project |-> project_id, context |-> context,
          _user_assigned |-> 0, _total |-> 0]
    ELSE [cls |-> cls, project |-> project_id, context |-> context,
          _closed |-> 0, _assigned |-> 0]

\* AssignedTasksStudentMetric.get_value_for_user: the instance afterwards and
\* the value returned.
AssignedTasks_get_value_for_user(self, user_data) ==
    LET after == [self EXCEPT !._user_assigned = user_data.assigned_tasks,
                              !._total = self.context.total_tasks]
    IN [self |-> after,
        value |-> IF after._total > 0
                  THEN Divide(after._user_assigned, after._total)
                  ELSE <<0, 1>>]

\* ClosedTasksStudentMetric.get_value_for_user
ClosedTasks_get_value_for_user(self, user_data) ==
    LET after == [self EXCEPT !._assigned = user_data.assigned_tasks,
                              !._closed = user_data.closed_tasks]
    IN [self |-> after,
        value |-> IF after._assigned > 0
                  THEN Divide(after._closed, after._assigned)
                  ELSE <<0, 1>>]

instance_get_value_for_user(self, user_data) ==
    IF self.cls = "AssignedTasksStudentMetric"
    THEN AssignedTasks_get_value_for_user(self, user_data)
    ELSE ClosedTasks_get_value_for_user(self, user_data)

\* BaseStudentMetric.build_metric_for_user; int(value) truncates the ratio.
Base_build_metric_for_user(self, username, display_name, value) ==
    LET display == IF display_name # EmptyString THEN display_name ELSE username
    IN [id |-> <<metric_key(self.cls), "_", username>>,
        name |-> IF display # EmptyString
                 THEN <<label(self.cls), " · ">> \o display
                 ELSE <<label(self.cls)>>,
        value |-> value,
        value_description |-> <<value[1] \div value[2]>>,
        description |-> IF display # EmptyString
                        THEN <<label(self.cls), " de ">> \o display
                        ELSE <<label(self.cls)>>,
        qualityFactors |-> <<"Team">>,
        date |-> now,
        student |-> username,
        student_display |-> display,
        metadata |-> [student |-> username, student_display |-> display,
                      metric |-> metric_key(self.cls)]]

\* build_metric_for_user of the two classes: the entry of the base class with
\* value_description replaced by the counts held on the instance.
build_metric_for_user(self, username, display_name, value) ==
    [Base_build_metric_for_user(self, username, display_name, value)
        EXCEPT !.value_description =
            IF self.cls = "AssignedTasksStudentMetric"
            THEN <<self._user_assigned, "/", self._total>>
            ELSE <<self._closed, "/", self._assigned>>]

\* The calculation instantiates the class once, with the sums of the member
\* rows as the shared context.
InstantiateStudentMetric(cls, project_id) ==
    /\ metric.call = ""
    /\ LET rows == {StudentRow(project_id, m.user_id) :
                       m \in {m \in memberships : /\ m.project_id = project_id
                                                  /\ m.user_id # NULL}}
           context == [total_tasks |-> SumOf(rows, "assigned_tasks"),
                       total_stories |-> SumOf(rows, "assigned_stories")]
       IN metric' = [call |-> "student_metrics", project_id |-> project_id,
                     results |-> OrderByFullName(rows),
                     instance |-> NewStudentMetric(cls, project_id, context),
                     values |-> << >>,
                     entries |-> {}]
    /\ UNCHANGED <<dataVars, sprint>>
    /\ UNCHANGED storeVars

\* The calculation asks the instance for the value of the next member row
\* and collects it.
GetValueForUser ==
    /\ metric.call = "student_metrics"
    /\ Len(metric.values) < Len(metric.results)
    /\ LET row == metric.results[Len(metric.values) + 1]
           got == instance_get_value_for_user(metric.instance, row)
       IN metric' = [metric EXCEPT !.instance = got.self,
                                   !.values = Append(@, got.value)]
    /\ UNCHANGED <<dataVars, sprint>>
    /\ UNCHANGED storeVars

\* The calculation builds the entry of a member whose value it has collected.
BuildMetricForUser(i) ==
    /\ metric.call = "student_metrics"
    /\ i \in 1..Len(metric.values)
    /\ \A e \in metric.entries : e.student # metric.results[i].username
    /\ metric' = [metric EXCEPT !.entries = @ \cup
                    {build_metric_for_user(metric.instance,
                                           metric.results[i].username,
                                           metric.results[i].full_name,
                                           metric.values[i])}]
    /\ UNCHANGED <<dataVars, sprint>>
    /\ UNCHANGED storeVars

\* No project data: the database part of the store specifications.
DbIdle ==
    /\ RegistryEmpty
    /\ AuthIdle
    /\ milestones = {}
    /\ tasks = {}
    /\ userstories = {}
    /\ issues = {}
    /\ memberships = {}
    /\ sprint = NoSprintCall
    /\ metric = NoMetricCall

StoreInit ==
    /\ DbIdle
    /\ settings = {<<TTL_SETTING, ConfiguredTtl>>}
    /\ now = 0
    /\ ticks = 0
    /\ snapshots = ForeignRows
    /\ next_id = 3
    /\ pc = [c \in Calls |-> "idle"]
    /\ args = [c \in Calls |-> IdleLocals]
    /\ cutoff = [c \in Calls |-> 0]
    /\ snapshot = [c \in Calls |-> 0]
    /\ started = 0
    /\ built = [c \in Calls |-> FALSE]
    /\ alone = [c \in Calls |-> FALSE]

Init == StoreInit

\* The deployments SpecTtl explores: the TTL setting unset or set to one of
\* TtlValues, one snapshot of (TheProject, internal) computed at minute 0, and
\* the clock at one of NowValues.
TtlValues == {-1, 0, 1, 2}
NowValues == {0, 1, 2, DEFAULT_SNAPSHOT_TTL_MINUTES - 1, DEFAULT_SNAPSHOT_TTL_MINUTES,
              DEFAULT_SNAPSHOT_TTL_MINUTES + 1}

TtlInit ==
    /\ DbIdle
    /\ settings \in {{}} \cup {{<<TTL_SETTING, v>>} : v \in TtlValues}
    /\ now \in NowValues
    /\ ticks = 0
    /\ snapshots = ForeignRows \cup
          {[id |-> 3, project |-> TheProject, provider |-> INTERNAL_PROVIDER,
            computed_at |-> 0, payload |-> Payload(TheProject)]}
    /\ next_id = 4
    /\ pc = [c \in Calls |-> "idle"]
    /\ args = [c \in Calls |-> IdleLocals]
    /\ cutoff = [c \in Calls |-> 0]
    /\ snapshot = [c \in Calls |-> 0]
    /\ started = 0
    /\ built = [c \in Calls |-> FALSE]
    /\ alone = [c \in Calls |-> FALSE]

Next ==
    \/ \E c \in Calls, uc \in BOOLEAN, f \in BOOLEAN : Begin(c, TheProject, uc, f)
    \/ \E c \in Calls : Lookup(c)
    \/ \E c \in Calls : Create(c)
    \/ \E c \in Calls : Prune(c)
    \/ \E c \in Calls : Finish(c)
    \/ Tick

Spec == Init /\ [][Next]_vars

\* Sequential calls of one request slot under every TTL setting.
NextTtl ==
    \/ \E uc \in BOOLEAN, f \in BOOLEAN : Begin(1, TheProject, uc, f)
    \/ Lookup(1)
    \/ Create(1)
    \/ Prune(1)
    \/ Finish(1)
    \/ Tick

SpecTtl == TtlInit /\ [][NextTtl]_vars

\* The store part of the database specifications: no call is ever made.
StoreIdle ==
    /\ settings = {}
    /\ now = 0
    /\ ticks = 0
    /\ snapshots = {}
    /\ next_id = 1
    /\ pc = [c \in Calls |-> "idle"]
    /\ args = [c \in Calls |-> IdleLocals]
    /\ cutoff = [c \in Calls |-> 0]
    /\ snapshot = [c \in Calls |-> 0]
    /\ started = 0
    /\ built = [c \in Calls |-> FALSE]
    /\ alone = [c \in Calls |-> FALSE]

\* A milestone row: of either project, open or closed, with any two dates.
MilestoneKinds ==
    [project_id : {TheProject, OtherProject}, closed : BOOLEAN,
     estimated_start : Dates, estimated_finish : Dates]

\* The milestone table of k rows whose kinds f gives; the row in position i
\* has id i.
MilestoneTable(k, f) ==
    {[id |-> i, name |-> <<"Sprint", i>>, project_id |-> f[i].project_id,
      closed |-> f[i].closed, estimated_start |-> f[i].estimated_start,
      estimated_finish |-> f[i].estimated_finish] : i \in 1..k}

SprintInit ==
    /\ StoreIdle
    /\ RegistryEmpty
    /\ AuthIdle
    /\ \E k \in 0..NMilestones : \E f \in [1..k -> MilestoneKinds] :
          milestones = MilestoneTable(k, f)
    /\ tasks = {}
    /\ userstories = {}
    /\ issues = {}
    /\ memberships = {}
    /\ sprint = NoSprintCall
    /\ metric = NoMetricCall

NextSprint ==
    \/ GetActiveSprint(TheProject)
    \/ GetActiveSprint(OtherProject)

SpecSprint == SprintInit /\ [][NextSprint]_vars

----------------------------------------------------------------------------
\* The project databases SpecMetric explores.  Every table is drawn from a
\* set of row kinds; a family of databases varies the columns one group of
\* metrics reads and leaves the other columns at their defaults.

RECURSIVE SetToSeq(_)
SetToSeq(S) ==
    IF S = {} THEN << >>
    ELSE LET x == CHOOSE x \in S : TRUE IN <<x>> \o SetToSeq(S \ {x})

\* The tables of at most n rows of the given kinds, one table per multiset of
\* kinds; the row in position i has id i.
Tables(kinds, n) ==
    LET seq == SetToSeq(kinds)
    IN UNION {{ {[id |-> i] @@ seq[f[i]] : i \in 1..k}
                : f \in {g \in [1..k -> 1..Len(seq)] :
                            \A i \in 1..(k - 1) : g[i] <= g[i + 1]}}
              : k \in 0..n}

\* Milestones of the project that contain today, open or closed.
RunningKinds ==
    [project_id : {TheProject}, closed : BOOLEAN,
     estimated_start : {0}, estimated_finish : {MaxDate}]

\* The milestone a row may point to: none, or the first milestone.
MilestoneRefs == {NULL, 1}

DefaultTask ==
    [project_id |-> TheProject, milestone_id |-> NULL, status_id |-> "new",
     assigned_to_id |-> NULL, is_blocked |-> FALSE, due_date |-> NoDate,
     created_date |-> 0, finished_date |-> NoDate, user_story_id |-> NULL]

CompletionKinds ==
    {[DefaultTask EXCEPT !.milestone_id = m, !.status_id = st] :
        m \in MilestoneRefs, st \in {"new", "closed", NoStatus}}

ProjectKinds ==
    {[DefaultTask EXCEPT !.project_id = p, !.status_id = st] :
        p \in {TheProject, OtherProject}, st \in {"new", "closed"}}

AssignmentKinds ==
    {[DefaultTask EXCEPT !.milestone_id = m, !.assigned_to_id = u] :
        m \in MilestoneRefs, u \in {NULL} \cup Users}

BlockedKinds ==
    {[DefaultTask EXCEPT !.milestone_id = m, !.status_id = st, !.is_blocked = b] :
        m \in MilestoneRefs, st \in {"new", "closed"}, b \in BOOLEAN}

DueKinds ==
    {[DefaultTask EXCEPT !.milestone_id = m, !.due_date = d] :
        m \in MilestoneRefs, d \in {NoDate, Today - 1, Today}}
    \cup {[DefaultTask EXCEPT !.milestone_id = m, !.status_id = "closed",
                              !.due_date = Today - 1] : m \in MilestoneRefs}

ClosureKinds ==
    {[DefaultTask EXCEPT !.milestone_id = m, !.status_id = "closed",
                         !.finished_date = f] :
        m \in MilestoneRefs, f \in {NoDate, 1, NowHours}}
    \cup {[DefaultTask EXCEPT !.milestone_id = m] : m \in MilestoneRefs}

StoryTaskKinds ==
    {[DefaultTask EXCEPT !.user_story_id = us] : us \in {NULL} \cup (1..MaxStories)}

StoryKinds ==
    [project_id : {TheProject}, milestone_id : MilestoneRefs,
     status_id : {"new", "closed"}]

IssueKinds ==
    [project_id : {TheProject}, milestone_id : MilestoneRefs,
     status_id : {"new"}, finished_date : {NoDate}]
    \cup [project_id : {TheProject}, milestone_id : MilestoneRefs,
          status_id : {"closed"}, finished_date : {NoDate, 1, NowHours}]

\* The membership tables: one row per chosen user, and a pending invitation
\* (a row without a user) when NULL is chosen.
MembershipTables ==
    {{[id |-> u + 1, project_id |-> TheProject, user_id |-> u] : u \in U}
        : U \in SUBSET ({NULL} \cup Users)}

MetricInit ==
    /\ StoreIdle
    /\ RegistryImported
    /\ AuthIdle
    /\ sprint = NoSprintCall
    /\ metric = NoMetricCall
    /\ \E k \in 0..NMilestones : \E f \in [1..k -> RunningKinds] :
          milestones = MilestoneTable(k, f)
    /\ \/ /\ tasks \in Tables(CompletionKinds, MaxTasks)
             \cup Tables(ProjectKinds, MaxTasks)
             \cup Tables(BlockedKinds, MaxFlowTasks)
             \cup Tables(DueKinds, MaxFlowTasks)
             \cup Tables(ClosureKinds, MaxFlowTasks)
          /\ userstories = {}
          /\ issues = {}
          /\ memberships = {}
       \/ /\ tasks \in Tables(AssignmentKinds, MaxFlowTasks)
          /\ userstories = {}
          /\ issues = {}
          /\ memberships \in MembershipTables
       \/ /\ tasks \in Tables(StoryTaskKinds, MaxFlowTasks)
          /\ userstories \in Tables(StoryKinds, MaxStories)
          /\ issues = {}
          /\ memberships = {}
       \/ /\ tasks = {}
          /\ userstories = {}
          /\ issues \in Tables(IssueKinds, MaxIssues)
          /\ memberships = {}

NextMetric ==
    \/ \E i \in DOMAIN METRIC_REGISTRY : Calculate(METRIC_REGISTRY[i], TheProject)
    \/ MetricTaskCompletion(TheProject)

SpecMetric == MetricInit /\ [][NextMetric]_vars

----------------------------------------------------------------------------
\* The project databases SpecSnapshot explores: a family that varies the team
\* and what is assigned to its members, and a family that varies the rows the
\* three project metrics count.

MaxMemberTasks == 2     \* rows of the task table, team family
MaxMemberStories == 1   \* rows of the user-story table

MemberTaskKinds ==
    {[DefaultTask EXCEPT !.status_id = st, !.assigned_to_id = u] :
        st \in {"new", "closed"}, u \in Users}

MemberStoryKinds ==
    [project_id : {TheProject}, milestone_id : {NULL},
     status_id : {"new", "closed"}, assigned_to_id : Users]

UnassignedStoryKinds ==
    [project_id : {TheProject}, milestone_id : {NULL},
     status_id : {"new", "closed"}, assigned_to_id : {NULL}]

SnapshotIssueKinds ==
    [project_id : {TheProject}, milestone_id : {NULL},
     status_id : {"new"}, finished_date : {NoDate}]
    \cup [project_id : {TheProject}, milestone_id : {NULL},
          status_id : {"closed"}, finished_date : {1, NowHours}]

\* The first user is a member of the other project; any users are members of
\* the project.
TeamTables ==
    {{[id |-> u + 1, project_id |-> TheProject, user_id |-> u] : u \in U}
       \cup {[id |-> NUsers + 2, project_id |-> OtherProject, user_id |-> 1]}
        : U \in SUBSET Users}

SnapshotInit ==
    /\ StoreIdle
    /\ RegistryImported
    /\ AuthIdle
    /\ sprint = NoSprintCall
    /\ metric = NoMetricCall
    /\ milestones = {}
    /\ \/ /\ tasks \in Tables(MemberTaskKinds, MaxMemberTasks)
          /\ userstories \in Tables(MemberStoryKinds, MaxMemberStories)
          /\ issues = {}
          /\ memberships \in TeamTables
       \/ /\ tasks \in Tables(ProjectKinds, MaxFlowTasks)
          /\ userstories \in Tables(UnassignedStoryKinds, MaxMemberStories)
          /\ issues \in Tables(SnapshotIssueKinds, MaxIssues)
          /\ memberships \in {{}, {[id |-> 1, project_id |-> TheProject,
                                    user_id |-> NULL]}}

NextSnapshot ==
    \/ \E raising \in Raising : BuildSnapshot(TheProject, raising)
    \/ BuildSnapshot(OtherProject, "none")
    \/ CalculateStudentMetric("AssignedTasksStudentMetric", TheProject)
    \/ CalculateStudentMetric("AssignedStoriesStudentMetric", TheProject)

SpecSnapshot == SnapshotInit /\ [][NextSnapshot]_vars

----------------------------------------------------------------------------
\* SpecRegistry: any classes registered in any order, from empty registries.

\* The classes a behaviour registers; a decorator accepts any class.
RegistrableClasses ==
    {METRIC_REGISTRY[1], STUDENT_METRIC_REGISTRY[1], HISTORICAL_METRIC_REGISTRY[1]}

RegistryInit ==
    /\ StoreIdle
    /\ RegistryEmpty
    /\ AuthIdle
    /\ milestones = {}
    /\ tasks = {}
    /\ userstories = {}
    /\ issues = {}
    /\ memberships = {}
    /\ sprint = NoSprintCall
    /\ metric = NoMetricCall

NextRegistry ==
    \/ \E c \in RegistrableClasses : register_metric(c)
    \/ \E c \in RegistrableClasses : register_student_metric(c)
    \/ \E c \in RegistrableClasses : register_historical_metric(c)

SpecRegistry == RegistryInit /\ [][NextRegistry]_vars

----------------------------------------------------------------------------
\* SpecInterval: task tables whose creation times, in hours, lie around the
\* thresholds of get_adaptive_interval.

CreatedDates ==
    {0, 30 * HoursPerDay - 1, 30 * HoursPerDay,
     180 * HoursPerDay - 1, 180 * HoursPerDay, 200 * HoursPerDay}

CreatedKinds ==
    {[DefaultTask EXCEPT !.project_id = p, !.created_date = d] :
        p \in {TheProject, OtherProject}, d \in CreatedDates}

IntervalInit ==
    /\ StoreIdle
    /\ RegistryImported
    /\ AuthIdle
    /\ sprint = NoSprintCall
    /\ metric = NoMetricCall
    /\ milestones = {}
    /\ tasks \in Tables(CreatedKinds, MaxFlowTasks)
    /\ userstories = {}
    /\ issues = {}
    /\ memberships = {}

NextInterval ==
    \/ GetAdaptiveInterval(TheProject)
    \/ GetAdaptiveInterval(OtherProject)

SpecInterval == IntervalInit /\ [][NextInterval]_vars

----------------------------------------------------------------------------
\* SpecHistorical: task tables whose dates spread over days, weeks and months,
\* with tasks of two users, open and closed.

MaxHistoricalTasks == 3

\* Creation times, in hours: day 0 and day 40.
HistoricalDates ==
    {0, 40 * HoursPerDay}

\* Open tasks, unassigned or of a user, and closed tasks of a user; a closed
\* task was finished two days after its creation.  An unassigned task of
\* day 200 stretches the span of the project to months.
HistoricalKinds ==
    {[DefaultTask EXCEPT !.created_date = d, !.assigned_to_id = u] :
        d \in HistoricalDates, u \in {NULL} \cup Users}
    \cup {[DefaultTask EXCEPT !.created_date = d, !.assigned_to_id = u,
                              !.status_id = "closed",
                              !.finished_date = d + 2 * HoursPerDay] :
            d \in HistoricalDates, u \in Users}
    \cup {[DefaultTask EXCEPT !.created_date = 200 * HoursPerDay]}
    \cup {[DefaultTask EXCEPT !.project_id = OtherProject, !.assigned_to_id = 1]}

HistoricalInit ==
    /\ StoreIdle
    /\ RegistryImported
    /\ AuthIdle
    /\ sprint = NoSprintCall
    /\ metric = NoMetricCall
    /\ milestones = {}
    /\ tasks \in Tables(HistoricalKinds, MaxHistoricalTasks)
    /\ userstories = {}
    /\ issues = {}
    /\ memberships = {}

NextHistorical ==
    \/ CalculateSeries("TaskCompletionHistoricalMetric", TheProject)
    \/ CalculateSeries("UserActivityHistoricalMetric", TheProject)

SpecHistorical == HistoricalInit /\ [][NextHistorical]_vars

----------------------------------------------------------------------------
\* SpecRefresh: the list and historical requests of one client for the
\* internal provider, with and without a refresh parameter, on the snapshot
\* store; the client sends a request once the one before has been answered.

\* Values of the refresh parameter: '1', 'True', 'YES', 'no', 'true ' and ''.
RefreshValues ==
    {<<"1">>, <<"T", "r", "u", "e">>, <<"Y", "E", "S">>, <<"n", "o">>,
     <<"t", "r", "u", "e", " ">>, EmptyString}

\* ?source=internal, alone or with a refresh parameter.
RefreshQueries ==
    {{<<"source", "internal">>}}
    \cup {{<<"source", "internal">>, <<"refresh", v>>} : v \in RefreshValues}

NextRefresh ==
    \/ \E c \in Calls, query \in RefreshQueries :
          (\A d \in Calls : ~InFlight(d)) /\ ListInternal(c, query)
    \/ \E c \in Calls, query \in RefreshQueries :
          (\A d \in Calls : ~InFlight(d)) /\ HistoricalInternal(c, query)
    \/ \E c \in Calls : Lookup(c)
    \/ \E c \in Calls : Create(c)
    \/ \E c \in Calls : Prune(c)
    \/ \E c \in Calls : Finish(c)
    \/ Tick

SpecRefresh == StoreInit /\ [][NextRefresh]_vars

----------------------------------------------------------------------------
\* SpecGoogle: one login_with_google call for every configuration, user table
\* and token payload below.

\* The domains 'upc' and 'gm' and the local parts of the addresses.
DomainUpc == <<"u", "p", "c">>
DomainGm == <<"g", "m">>

\* settings.GOOGLE_AUTH: one client id; no domain restriction or the domain
\* 'Upc'; AUTO_CREATE_USERS on, off or left to its default.
GoogleConfigs ==
    {{<<"CLIENT_IDS", {"test-client"}>>}}
    \cup {{<<"CLIENT_IDS", {"test-client"}>>, <<"ALLOWED_DOMAINS", allowed>>,
           <<"AUTO_CREATE_USERS", auto>>} :
            allowed \in {{}, {<<"U", "p", "c">>}}, auto \in BOOLEAN}

\* The user j@upc, active, unverified and without a full name; the user
\* x@upc, disabled.
GoogleUserTables ==
    LET j == [id |-> 1, username |-> <<"j">>, email |-> <<<<"j">>, DomainUpc>>,
              full_name |-> "", verified_email |-> FALSE, is_active |-> TRUE,
              is_system |-> FALSE]
        x == [id |-> 2, username |-> <<"x">>, email |-> <<<<"x">>, DomainUpc>>,
              full_name |-> "X", verified_email |-> TRUE, is_active |-> FALSE,
              is_system |-> FALSE]
    IN {{}, {j}, {j, x}}

\* The dicts with the key absent or with one of the values.
Optional(key, values) == {{}} \cup {{<<key, v>>} : v \in values}

\* The addresses j@upc, J.@UPC, +@gm and x@upc, and the empty string.
GoogleEmails ==
    {<<<<"j">>, DomainUpc>>, <<<<"J", ".">>, <<"U", "P", "C">>>>,
     <<<<"+">>, DomainGm>>, <<<<"x">>, DomainUpc>>, EmptyString}

GooglePayloads ==
    {aud \cup iss \cup verified \cup email \cup hd \cup name :
        aud \in Optional("aud", {"test-client", "other-client"}),
        iss \in Optional("iss", {"accounts.google.com", "https://accounts.google.com",
                                 "evil.com"}),
        verified \in Optional("email_verified", BOOLEAN),
        email \in Optional("email", GoogleEmails),
        hd \in Optional("hd", {DomainUpc, <<"G", "M">>}),
        name \in Optional("name", {"John Doe"})}

GoogleInit ==
    /\ RegistryImported
    /\ settings \in {{<<"GOOGLE_AUTH", config>>} : config \in GoogleConfigs}
    /\ now = 0
    /\ ticks = 0
    /\ snapshots = {}
    /\ next_id = 1
    /\ pc = [c \in Calls |-> "idle"]
    /\ args = [c \in Calls |-> IdleLocals]
    /\ cutoff = [c \in Calls |-> 0]
    /\ snapshot = [c \in Calls |-> 0]
    /\ started = 0
    /\ built = [c \in Calls |-> FALSE]
    /\ alone = [c \in Calls |-> FALSE]
    /\ milestones = {}
    /\ tasks = {}
    /\ userstories = {}
    /\ issues = {}
    /\ memberships = {}
    /\ sprint = NoSprintCall
    /\ metric = NoMetricCall
    /\ users \in GoogleUserTables
    /\ session = {}
    /\ response = NoResponse

NextGoogle ==
    \/ \E payload \in GooglePayloads : LoginWithGoogle("valid", payload)
    \/ \E token \in {"missing", "invalid"} : LoginWithGoogle(token, {})

SpecGoogle == GoogleInit /\ [][NextGoogle]_vars

----------------------------------------------------------------------------
\* SpecSession: the requests of one client session to the authentication
\* endpoints and to the external branch of list and historical, under both
\* settings of METRICS_PROVIDER.

BackendAnswers == {"unreachable", "404", "200 not json", "200 []", "200 metrics", "500"}

\* POST /login: with or without a source, a username and a project.
LoginRequests ==
    [data : {source \cup username \cup project :
                source \in Optional("source", {"internal", "external"}),
                username \in Optional("username", {"prj"}),
                project \in Optional("project", {"ext"})},
     query : {{}},
     is_authenticated : BOOLEAN,
     permitted : {TRUE},
     backend : BackendAnswers]

\* POST /logout and GET /status, which never call the backend.
LogoutRequests ==
    [data : Optional("source", {"internal", "external"}),
     query : {{}},
     is_authenticated : BOOLEAN,
     permitted : {TRUE},
     backend : {"unreachable"}]
StatusRequests ==
    [data : {{}},
     query : Optional("source", {"internal", "external", "other"}),
     is_authenticated : BOOLEAN,
     permitted : {TRUE},
     backend : {"unreachable"}]

\* GET /metrics and GET /historical: with or without a source, a project and
\* an external id, by a user who may or may not view the project.
MetricsRequests ==
    [data : {{}},
     query : {source \cup project \cup external :
                source \in Optional("source", {"external", "other"}),
                project \in Optional("project", {"project-1", "nope"}),
                external \in Optional("external", {"other-ext"})},
     is_authenticated : {TRUE},
     permitted : BOOLEAN,
     backend : {"200 metrics", "unreachable"}]

SessionInit ==
    /\ RegistryImported
    /\ settings \in {{}, {<<"METRICS_PROVIDER", "internal">>}}
    /\ now = 0
    /\ ticks = 0
    /\ snapshots = {}
    /\ next_id = 1
    /\ pc = [c \in Calls |-> "idle"]
    /\ args = [c \in Calls |-> IdleLocals]
    /\ cutoff = [c \in Calls |-> 0]
    /\ snapshot = [c \in Calls |-> 0]
    /\ started = 0
    /\ built = [c \in Calls |-> FALSE]
    /\ alone = [c \in Calls |-> FALSE]
    /\ milestones = {}
    /\ tasks = {}
    /\ userstories = {}
    /\ issues = {}
    /\ memberships = {}
    /\ sprint = NoSprintCall
    /\ metric = NoMetricCall
    /\ users = {}
    /\ session = {}
    /\ response = NoResponse

NextSession ==
    \/ \E request \in LoginRequests : Login(request)
    \/ \E request \in LogoutRequests : Logout(request)
    \/ \E request \in StatusRequests : Status(request)
    \/ \E request \in MetricsRequests : ListExternal(request)
    \/ \E request \in MetricsRequests : HistoricalExternal(request)

SpecSession == SessionInit /\ [][NextSession]_vars

----------------------------------------------------------------------------
\* SpecStudent: one calculation of a student metric class over the team of
\* the project, the entries built in any order after their values.

StudentInit ==
    /\ StoreIdle
    /\ RegistryImported
    /\ AuthIdle
    /\ sprint = NoSprintCall
    /\ metric = NoMetricCall
    /\ milestones = {}
    /\ tasks \in Tables(MemberTaskKinds, MaxMemberTasks)
    /\ userstories = {}
    /\ issues = {}
    /\ memberships \in TeamTables

NextStudent ==
    \/ \E cls \in StatefulStudentMetrics : InstantiateStudentMetric(cls, TheProject)
    \/ GetValueForUser
    \/ \E i \in Users : BuildMetricForUser(i)

SpecStudent == StudentInit /\ [][NextStudent]_vars

----------------------------------------------------------------------------
\* Properties of the snapshot store.  The formulas read the rows directly and
\* do not go through the operators of the model.

Ids(rows) == {r.id : r \in rows}

\* The rows of (p, internal) in a table.
PairRows(rows, p) == {r \in rows : r.project = p /\ r.provider = "internal"}

\* The rows of (p, internal) a lookup with cutoff co may return.
InWindow(rows, p, co) == {r \in PairRows(rows, p) : r.computed_at >= co}

TypeOK ==
    /\ pc \in [Calls -> {"idle", "lookup", "build", "prune", "done"}]
    /\ \A c \in Calls : snapshot[c] \in 0..(next_id - 1)
    /\ \A r \in snapshots : r.id < next_id

\* C1: a cached, unforced call that finds a row inside the TTL window returns
\* that row, the most recent of the window, without recomputing: the step
\* creates no row and deletes none.
C1_CacheHitReturnsExisting ==
    [][\A c \in Calls :
         (/\ pc[c] = "lookup"
          /\ pc'[c] # "lookup"
          /\ InWindow(snapshots, args[c].project, cutoff[c]) # {})
         => /\ pc'[c] = "done"
            /\ ~built'[c]
            /\ snapshots' = snapshots
            /\ next_id' = next_id
            /\ \E r \in InWindow(snapshots, args[c].project, cutoff[c]) :
                 /\ r.id = snapshot'[c]
                 /\ \A s \in InWindow(snapshots, args[c].project, cutoff[c]) :
                      s.computed_at <= r.computed_at]_vars

\* C1 witness: two calls have returned the same stored row as cache hits.
C1_Witness ==
    \E c, d \in Calls :
        /\ c # d
        /\ pc[c] = "done" /\ pc[d] = "done"
        /\ ~built[c] /\ ~built[d]
        /\ snapshot[c] = snapshot[d]
        /\ snapshot[c] \in Ids(PairRows(snapshots, TheProject))

\* C2: a forced call never takes the cache path even when a row inside the
\* window exists, it creates a new row, and when it returns without any other
\* call having been in flight since it began, the rows of (project, internal)
\* are exactly the row it created.
C2_ForceRecomputes ==
    [][\A c \in Calls :
         /\ (pc[c] = "idle" /\ pc'[c] # "idle" /\ args'[c].force)
            => pc'[c] = "build"
         /\ (pc[c] = "build" /\ pc'[c] # "build")
            => /\ pc'[c] = "prune"
               /\ built'[c]
               /\ snapshot'[c] \notin Ids(snapshots)
               /\ snapshot'[c] \in Ids(PairRows(snapshots', args[c].project))
         /\ (pc[c] = "prune" /\ pc'[c] # "prune" /\ args[c].force /\ alone[c])
            => /\ pc'[c] = "done"
               /\ built'[c]
               /\ Ids(PairRows(snapshots', args[c].project)) = {snapshot'[c]}]_vars

\* C2 witness: a forced call, alone since it began with use_cache set, has
\* created its row while another row inside the window is still stored.
C2_Witness ==
    \E c \in Calls :
        /\ pc[c] = "prune"
        /\ args[c].force /\ args[c].use_cache /\ alone[c]
        /\ \E r \in PairRows(snapshots, TheProject) :
             r.id # snapshot[c] /\ r.computed_at >= now - ConfiguredTtl

\* C3: at most one row per (project, provider) in every reachable state.
C3_AtMostOneRowPerPair ==
    \A r, s \in snapshots :
        (r.project = s.project /\ r.provider = s.provider) => r = s

\* C4: a row that the call which created it still holds disappears from the
\* table only by the prune step of another call; the call's own prune never
\* deletes it.
C4_OwnRowDeletedOnlyByOthers ==
    [][\A c \in Calls :
         (/\ built[c]
          /\ snapshot[c] \in Ids(snapshots)
          /\ snapshot[c] \notin Ids(snapshots'))
         => \E d \in Calls \ {c} : pc[d] = "prune" /\ pc'[d] = "done"]_vars

\* C4 witness: two calls have both recomputed and pruned, and one of them has
\* returned a row that is no longer stored.
C4_Witness ==
    \E c, d \in Calls :
        /\ c # d
        /\ pc[c] = "done" /\ built[c]
        /\ pc[d] = "done" /\ built[d]
        /\ snapshot[c] \notin Ids(snapshots)

\* C5: whenever no call stands between its create and its prune, at most one
\* row of (TheProject, internal) is stored.
C5_AtMostOneOncePruned ==
    (\A c \in Calls : pc[c] # "prune")
        => Cardinality(PairRows(snapshots, TheProject)) <= 1

\* C5 witness: two calls have created and pruned concurrently, none is left
\* to prune, and one row remains.
C5_Witness ==
    \E c, d \in Calls :
        /\ c # d
        /\ pc[c] = "done" /\ built[c]
        /\ pc[d] = "done" /\ built[d]
        /\ \A e \in Calls : pc[e] # "prune"
        /\ Cardinality(PairRows(snapshots, TheProject)) = 1

\* C6: a cached, unforced call that finds no row inside the window goes on
\* to recompute (it neither returns nor fails), creates a new row, and its
\* prune deletes every other row of the pair and returns the new row.
C6_MissRecomputes ==
    [][\A c \in Calls :
         /\ (/\ pc[c] = "lookup"
             /\ pc'[c] # "lookup"
             /\ InWindow(snapshots, args[c].project, cutoff[c]) = {})
            => pc'[c] = "build" /\ snapshots' = snapshots
         /\ (pc[c] = "build" /\ pc'[c] # "build")
            => /\ pc'[c] = "prune"
               /\ snapshot'[c] \notin Ids(snapshots)
               /\ \E r \in PairRows(snapshots', args[c].project) :
                    r.id = snapshot'[c] /\ r.computed_at = now
         /\ (pc[c] = "prune" /\ pc'[c] # "prune")
            => /\ pc'[c] = "done"
               /\ snapshot'[c] = snapshot[c]
               /\ built'[c]
               /\ Ids(PairRows(snapshots', args[c].project)) \subseteq {snapshot[c]}]_vars

\* C6 witness: a cached, unforced call has created its row while a row older
\* than the window is still stored.
C6_Witness ==
    \E c \in Calls :
        /\ pc[c] = "prune"
        /\ args[c].use_cache /\ ~args[c].force
        /\ \E r \in PairRows(snapshots, TheProject) :
             r.id # snapshot[c] /\ r.computed_at < now - ConfiguredTtl

\* The TTL in force: the setting when configured, 60 minutes otherwise.
TtlInForce ==
    IF \E kv \in settings : kv[1] = "METRICS_INTERNAL_SNAPSHOT_TTL_MINUTES"
    THEN (CHOOSE kv \in settings : kv[1] = "METRICS_INTERNAL_SNAPSHOT_TTL_MINUTES")[2]
    ELSE DEFAULT_SNAPSHOT_TTL_MINUTES

\* C7 as claimed: the cutoff of every call is now - TTL minutes for every
\* configured TTL.
C7_CutoffIsNowMinusTtl ==
    [][\A c \in Calls :
         (pc[c] = "idle" /\ pc'[c] # "idle") => cutoff'[c] = now - TtlInForce]_vars

\* C7 as amended: the cutoff is now - TTL for a TTL of one minute or more and
\* now - 1 for a TTL of zero or less, and the cache query returns a row
\* exactly when a row of the pair has computed_at >= cutoff.
C7_CutoffClampsTtl ==
    [][\A c \in Calls :
         /\ (pc[c] = "idle" /\ pc'[c] # "idle")
            => cutoff'[c] = now - (IF TtlInForce >= 1 THEN TtlInForce ELSE 1)
         /\ (pc[c] = "lookup" /\ pc'[c] # "lookup")
            => (pc'[c] = "done"
                  <=> \E r \in PairRows(snapshots, args[c].project) :
                         r.computed_at >= cutoff[c])]_vars

\* C7 witness: under a TTL configured below one minute, a row computed one
\* minute earlier has been returned as a cache hit.
C7_Witness ==
    /\ TtlInForce < 1
    /\ \E c \in Calls :
         /\ pc[c] = "done" /\ ~built[c]
         /\ \E r \in snapshots : r.id = snapshot[c] /\ r.computed_at = now - 1

----------------------------------------------------------------------------
\* Properties of get_active_sprint.

\* The open milestones of project p, and those of them that contain today.
OpenOf(p) == {m \in milestones : m.project_id = p /\ ~m.closed}
RunningOf(p) ==
    {m \in OpenOf(p) : m.estimated_start <= Today /\ Today <= m.estimated_finish}

\* The value v is the sprint dictionary of milestone m.
IsSprintOf(v, m) ==
    /\ DOMAIN v = {"id", "name", "estimated_start", "estimated_finish"}
    /\ v.id = m.id
    /\ v.name = m.name
    /\ v.estimated_start = m.estimated_start
    /\ v.estimated_finish = m.estimated_finish

----------------------------------------------------------------------------
\* Properties of the project metrics.  Values are in ten-thousandths: 1.0 is
\* 10000.

\* The row is one the calculation counts: a row of the project and, when the
\* calculation resolved a sprint, of that sprint.
InScope(r) ==
    /\ r.project_id = metric.project_id
    /\ (DOMAIN metric.sprint = {} \/ r.milestone_id = metric.sprint.id)

\* The calculation returned a result whose value is v.
Returned(v) ==
    /\ "result" \in DOMAIN metric
    /\ "value" \in DOMAIN metric.result
    /\ metric.result.value = v

\* The calculation returned n / d rounded to four decimals.
ReturnedRounded(n, d) ==
    /\ "result" \in DOMAIN metric
    /\ "value" \in DOMAIN metric.result
    /\ 2 * (metric.result.value * d - 10000 * n) <= d
    /\ 2 * (10000 * n - metric.result.value * d) <= d

\* The tasks of the project, and those whose status is a closed one.
ProjectTasks == {t \in tasks : t.project_id = metric.project_id}
ClosedAmong(rows) == {r \in rows : r.status_id = "closed"}

\* C9 as claimed: with T the tasks of the project and C the closed ones, the
\* value of either task-completion metric is round(C/T, 4), and 0.0 when T = 0.
C9_ProjectWideCompletion ==
    metric.call \in {"TaskCompletionMetric", "_metric_task_completion"} =>
        IF ProjectTasks # {}
        THEN ReturnedRounded(Cardinality(ClosedAmong(ProjectTasks)),
                             Cardinality(ProjectTasks))
        ELSE Returned(0)

\* C9 as amended: the calculator's _metric_task_completion counts the tasks
\* of the project; TaskCompletionMetric counts the tasks of the sprint it
\* resolved (an open milestone of the project) and the tasks of the project
\* only when the project has no open milestone.  Over the tasks counted the
\* value is round(C/T, 4), and 0.0 when T = 0.
C9_ScopedCompletion ==
    /\ metric.call = "_metric_task_completion" =>
          IF ProjectTasks # {}
          THEN ReturnedRounded(Cardinality(ClosedAmong(ProjectTasks)),
                               Cardinality(ProjectTasks))
          ELSE Returned(0)
    /\ metric.call = "TaskCompletionMetric" =>
          LET counted == {t \in tasks : InScope(t)}
          IN /\ IF DOMAIN metric.sprint = {}
                THEN OpenOf(metric.project_id) = {}
                ELSE \E m \in OpenOf(metric.project_id) : m.id = metric.sprint.id
             /\ IF counted # {}
                THEN ReturnedRounded(Cardinality(ClosedAmong(counted)),
                                     Cardinality(counted))
                ELSE Returned(0)

\* C9 witness: TaskCompletionMetric has resolved a sprint holding one closed
\* and one open task while a third task, closed, lies outside the sprint, and
\* has returned 0.5.
C9_Witness ==
    /\ metric.call = "TaskCompletionMetric"
    /\ DOMAIN metric.sprint # {}
    /\ Cardinality({t \in tasks : InScope(t)}) = 2
    /\ Cardinality(ClosedAmong({t \in tasks : InScope(t)})) = 1
    /\ Cardinality(ClosedAmong(ProjectTasks)) = 2
    /\ Returned(5000)

\* The rows that make the denominator of each registered metric.
OpenTasksInScope == {t \in tasks : InScope(t) /\ t.status_id = "new"}
MembersWithUser ==
    {m \in memberships : m.project_id = metric.project_id /\ m.user_id # 0}

\* C10: every calculation of a registered metric returns a result with a
\* value, never a division error, and with a zero denominator the value is
\* the one of the policy table: 0.0 for task completion, user-story
\* completion, issue resolution and team participation, 1.0 for task
\* assignment, blocked tasks, stories with tasks and tasks on time; task
\* closure time is 0 without closed tasks.
C10_ZeroDenominatorPolicy ==
    metric.call \notin {"", "_metric_task_completion"} =>
        /\ "value" \in DOMAIN metric.result
        /\ (metric.call = "TaskCompletionMetric" /\ {t \in tasks : InScope(t)} = {})
              => Returned(0)
        /\ (metric.call = "UserStoryCompletionMetric"
              /\ {us \in userstories : InScope(us)} = {})
              => Returned(0)
        /\ (metric.call = "IssueResolutionMetric" /\ {i \in issues : InScope(i)} = {})
              => Returned(0)
        /\ (metric.call = "TeamParticipationMetric" /\ MembersWithUser = {})
              => Returned(0)
        /\ (metric.call = "TaskAssignmentMetric" /\ {t \in tasks : InScope(t)} = {})
              => Returned(10000)
        /\ (metric.call = "BlockedTasksMetric" /\ OpenTasksInScope = {})
              => Returned(10000)
        /\ (metric.call = "StoriesWithTasksMetric"
              /\ {us \in userstories : InScope(us)} = {})
              => Returned(10000)
        /\ (metric.call = "OverdueTasksMetric" /\ OpenTasksInScope = {})
              => Returned(10000)
        /\ (metric.call = "TaskClosureTimeMetric"
              /\ ClosedAmong({t \in tasks : InScope(t)}) = {})
              => Returned(0)

\* C10 witness: BlockedTasksMetric has been calculated for a project whose
\* tasks in scope are all closed, one of them blocked, and has returned 1.0.
C10_Witness ==
    /\ metric.call = "BlockedTasksMetric"
    /\ OpenTasksInScope = {}
    /\ \E t \in tasks : InScope(t) /\ t.is_blocked
    /\ Returned(10000)

\* The registered metrics whose value is a ratio.
RatioMetrics ==
    {"TaskCompletionMetric", "UserStoryCompletionMetric", "IssueResolutionMetric",
     "TaskAssignmentMetric", "BlockedTasksMetric", "StoriesWithTasksMetric",
     "TeamParticipationMetric", "OverdueTasksMetric"}

\* C11: the value of every ratio metric lies in [0, 1], and the numerator
\* count it reports never exceeds its denominator count.
C11_RatioInUnitInterval ==
    metric.call \in RatioMetrics =>
        /\ "value" \in DOMAIN metric.result
        /\ metric.result.value >= 0
        /\ metric.result.value <= 10000
        /\ LET md == metric.result.metadata
           IN /\ metric.call \in {"TaskCompletionMetric", "UserStoryCompletionMetric",
                                  "IssueResolutionMetric"}
                    => (0 <= md.closed /\ md.closed <= md.total)
              /\ metric.call = "TaskAssignmentMetric"
                    => (0 <= md.assigned /\ md.assigned <= md.total)
              /\ metric.call = "BlockedTasksMetric"
                    => (0 <= md.blocked /\ md.blocked <= md.total_open)
              /\ metric.call = "StoriesWithTasksMetric"
                    => (0 <= md.with_tasks /\ md.with_tasks <= md.total_stories)
              /\ metric.call = "TeamParticipationMetric"
                    => (0 <= md.members_with_tasks
                          /\ md.members_with_tasks <= md.total_members)
              /\ metric.call = "OverdueTasksMetric"
                    => (0 <= md.overdue /\ md.overdue <= md.total_open)

\* C11 witness: BlockedTasksMetric has counted two open tasks, one of them
\* blocked, and has returned 0.5.
C11_Witness ==
    /\ metric.call = "BlockedTasksMetric"
    /\ metric.result.metadata.total_open = 2
    /\ metric.result.metadata.blocked = 1
    /\ Returned(5000)

\* C12: two successive calculations of the same metric on an unchanged
\* database return identical results.
C12_CalculateIsIdempotent ==
    [][(/\ metric.call # ""
        /\ metric'.call = metric.call
        /\ dataVars' = dataVars)
       => metric'.result = metric.result]_vars


----------------------------------------------------------------------------
\* Properties of build_snapshot.  The formulas read the tables and the
\* payload directly.

\* The id prefix of the entry each project metric builder produces.
BuilderMetricId ==
    [_metric_task_completion |-> "task_completion",
     _metric_user_story_completion |-> "userstory_completion",
     _metric_issue_resolution |-> "issue_resolution"]

\* The id prefixes of the entries of a result's payload (none when the call
\* returned no payload).
PayloadIdPrefixes(result) ==
    IF "payload" \in DOMAIN result
    THEN {result.payload.metrics[i].id[1] : i \in DOMAIN result.payload.metrics}
    ELSE {}

\* C13: when the query of one project metric fails during build_snapshot, the
\* call still returns a payload, the payload lacks the failing metric and
\* holds the entries of the two other project metrics.
C13_FailingMetricIsOmitted ==
    (/\ metric.call = "build_snapshot"
     /\ metric.raising \in DOMAIN BuilderMetricId)
    => /\ "payload" \in DOMAIN metric.result
       /\ \A b \in DOMAIN BuilderMetricId :
             (BuilderMetricId[b] \in PayloadIdPrefixes(metric.result))
                <=> (b # metric.raising)


\* The users with a membership of project p.
MembersOf(p) ==
    {m.user_id : m \in {m \in memberships : m.project_id = p /\ m.user_id # NULL}}

\* The rows of a table that belong to project p and are assigned to user u.
AssignedTo(rows, p, u) == {r \in rows : r.project_id = p /\ r.assigned_to_id = u}

\* The entries of a payload with the given metric key for user u.
StudentEntries(payload, key, u) ==
    {payload.metrics[i] : i \in {i \in DOMAIN payload.metrics :
                                    payload.metrics[i].id = <<key, "_", <<"user", u>>>>}}

\* The value closed / assigned, in ten-thousandths, holds of an entry (0.0
\* when nothing is assigned), and the description reads "closed/assigned".
IsRatioEntry(e, closed, assigned) ==
    /\ IF assigned = 0 THEN e.value = 0 ELSE e.value * assigned = 10000 * closed
    /\ e.value_description = <<closed, "/", assigned>>

\* C14: in the payload of build_snapshot every member has a closedtasks entry
\* whose value is closed tasks / assigned tasks (0.0 when none is assigned)
\* with the description "closed/assigned", and a completedus entry that is
\* the same for the stories.
C14_StudentRatios ==
    (metric.call = "build_snapshot" /\ "payload" \in DOMAIN metric.result)
    => \A u \in MembersOf(metric.project_id) :
          LET p == metric.project_id
              t == AssignedTo(tasks, p, u)
              s == AssignedTo(userstories, p, u)
          IN /\ StudentEntries(metric.result.payload, "closedtasks", u) # {}
             /\ \A e \in StudentEntries(metric.result.payload, "closedtasks", u) :
                   IsRatioEntry(e, Cardinality(ClosedAmong(t)), Cardinality(t))
             /\ StudentEntries(metric.result.payload, "completedus", u) # {}
             /\ \A e \in StudentEntries(metric.result.payload, "completedus", u) :
                   IsRatioEntry(e, Cardinality(ClosedAmong(s)), Cardinality(s))


RECURSIVE SumOfShares(_)
SumOfShares(values) ==
    IF values = << >> THEN <<0, 1>>
    ELSE LET rest == SumOfShares(Tail(values))
         IN <<Head(values)[1] * rest[2] + rest[1] * Head(values)[2],
              Head(values)[2] * rest[2]>>

\* C15: with the sum of the assigned counts of all member rows as the
\* denominator, the assignedtasks shares (and the totalus shares) of the
\* members of a project add up to 1.0.
C15_SharesSumToOne ==
    (metric.call \in {"AssignedTasksStudentMetric", "AssignedStoriesStudentMetric"})
    => /\ "values" \in DOMAIN metric.result
       /\ LET sum == SumOfShares(metric.result.values)
          IN sum[1] = sum[2]


\* A build_snapshot call returned a payload, and the call before it returned
\* the payload of another project.
TwoPayloads ==
    /\ metric.call = "build_snapshot"
    /\ "payload" \in DOMAIN metric.result
    /\ metric.previous # None
    /\ metric.previous.payload.project_slug # metric.result.payload.project_slug

StudentMetricKeys == {"assignedtasks", "closedtasks", "totalus", "completedus"}

\* C16 as claimed: no two entries of one payload have the same id, and no
\* entry of the payload of one project has the id of an entry of the payload
\* of another project.
C16_IdsGloballyUnique ==
    (metric.call = "build_snapshot" /\ "payload" \in DOMAIN metric.result)
    => LET ms == metric.result.payload.metrics
       IN /\ \A i, j \in DOMAIN ms : i # j => ms[i].id # ms[j].id
          /\ TwoPayloads
             => LET ps == metric.previous.payload.metrics
                IN \A i \in DOMAIN ms, j \in DOMAIN ps : ms[i].id # ps[j].id

\* C16, amended: no two entries of one payload have the same id, and an
\* entry of the payload of one project has the id of an entry of the payload
\* of another project only when both are the same per-student metric of a
\* user who is a member of both projects.
C16_IdsUniquePerPayload ==
    (metric.call = "build_snapshot" /\ "payload" \in DOMAIN metric.result)
    => LET ms == metric.result.payload.metrics
       IN /\ \A i, j \in DOMAIN ms : i # j => ms[i].id # ms[j].id
          /\ TwoPayloads
             => LET ps == metric.previous.payload.metrics
                IN \A i \in DOMAIN ms, j \in DOMAIN ps :
                      ms[i].id = ps[j].id
                      => /\ ms[i].id[1] \in StudentMetricKeys
                         /\ \E u \in MembersOf(TheProject) \cap MembersOf(OtherProject) :
                               ms[i].id[3] = <<"user", u>>

\* The payload of a project with two members follows the payload of the other
\* project, and the two projects share a member.
C16_Witness ==
    /\ TwoPayloads
    /\ Len(metric.result.payload.students) >= 2
    /\ MembersOf(TheProject) \cap MembersOf(OtherProject) # {}


----------------------------------------------------------------------------
\* Properties of the scope of TaskCompletionMetric.

\* The name the description carries: the name of the milestone the
\* calculation resolved, "Proyecto" when it resolved none.
ScopeName ==
    IF DOMAIN metric.sprint = {} THEN <<"Proyecto">>
    ELSE (CHOOSE m \in milestones : m.id = metric.sprint.id).name

\* C17: TaskCompletionMetric returns a result in every case; it counts the
\* tasks of the sprint it resolved, which is an open milestone of the
\* project, and all tasks of the project when the project has no open
\* milestone; the description reads "{closed}/{total} en {name}" with the
\* name of the sprint, and "Proyecto" without a sprint.
C17_TaskCompletionScope ==
    metric.call = "TaskCompletionMetric" =>
        LET p == metric.project_id
            all == {t \in tasks : t.project_id = p}
            counted == IF DOMAIN metric.sprint = {} THEN all
                       ELSE {t \in all : t.milestone_id = metric.sprint.id}
            total == Cardinality(counted)
            closed == Cardinality({t \in counted : t.status_id = "closed"})
        IN /\ DOMAIN metric.sprint = {} <=> OpenOf(p) = {}
           /\ DOMAIN metric.sprint # {}
                 => \E m \in OpenOf(p) : m.id = metric.sprint.id
           /\ "metadata" \in DOMAIN metric.result
           /\ metric.result.metadata.total = total
           /\ metric.result.metadata.closed = closed
           /\ metric.result.value_description
                 = <<closed, "/", total, " en ">> \o ScopeName

\* C17 witness: the only milestone of the project is closed and holds one of
\* the two tasks of the project, and the calculation has counted both tasks
\* under the name "Proyecto".
C17_Witness ==
    /\ metric.call = "TaskCompletionMetric"
    /\ milestones # {}
    /\ OpenOf(TheProject) = {}
    /\ \E t \in tasks : t.project_id = TheProject /\ t.milestone_id # 0
    /\ \E t \in tasks : t.project_id = TheProject /\ t.milestone_id = 0
    /\ metric.result.metadata.total = 2
    /\ metric.result.value_description
          = <<metric.result.metadata.closed, "/", 2, " en ", "Proyecto">>


----------------------------------------------------------------------------
\* Properties of is_new_project.

\* Some entry of the metrics list reports a total other than zero.
SomeTotal(payload) ==
    \E i \in DOMAIN payload.metrics :
        /\ "total" \in DOMAIN payload.metrics[i].metadata
        /\ payload.metrics[i].metadata.total # 0

\* The positions of the per-student entries in the metrics list.
StudentPositions(payload) ==
    {i \in DOMAIN payload.metrics : "student" \in DOMAIN payload.metrics[i]}

\* C18: is_new_project is true exactly when no entry of the metrics list
\* reports a nonzero total and there is no per-student entry; that is, when
\* the project has no task, no story, no issue and no member with a user.
C18_IsNewProject ==
    (metric.call = "build_snapshot" /\ "payload" \in DOMAIN metric.result)
    => LET payload == metric.result.payload
           p == metric.project_id
       IN /\ payload.is_new_project
                <=> (~SomeTotal(payload) /\ StudentPositions(payload) = {})
          /\ payload.is_new_project
                <=> /\ \A t \in tasks : t.project_id # p
                    /\ \A us \in userstories : us.project_id # p
                    /\ \A i \in issues : i.project_id # p
                    /\ MembersOf(p) = {}

\* C18 witness: the project has a member but no task, story or issue: the
\* payload reports no total, holds per-student entries and is not new.
C18_Witness ==
    /\ metric.call = "build_snapshot"
    /\ "payload" \in DOMAIN metric.result
    /\ ~SomeTotal(metric.result.payload)
    /\ StudentPositions(metric.result.payload) # {}
    /\ ~metric.result.payload.is_new_project


----------------------------------------------------------------------------
\* Properties of the registries.

\* The classes the calls of one decorator were given, in the order of the
\* calls.
RECURSIVE RegisteredBy(_, _)
RegisteredBy(calls, fn) ==
    IF calls = << >> THEN << >>
    ELSE (IF Head(calls)[1] = fn THEN <<Head(calls)[2]>> ELSE << >>)
         \o RegisteredBy(Tail(calls), fn)

\* The sequence longer is the sequence shorter with one element appended.
GrewByOne(shorter, longer) ==
    /\ Len(longer) = Len(shorter) + 1
    /\ \A i \in DOMAIN shorter : longer[i] = shorter[i]

\* C19: every register_* call appends the class it is given to its own
\* registry, leaves the two other registries as they were and returns the
\* class; so each registry always holds exactly the classes registered into
\* it, in the order of registration.
C19_RegistriesAppendOnly ==
    /\ [](/\ metric_registry = RegisteredBy(registrations, "register_metric")
          /\ student_metric_registry
                = RegisteredBy(registrations, "register_student_metric")
          /\ historical_metric_registry
                = RegisteredBy(registrations, "register_historical_metric"))
    /\ [][LET call == registrations'[Len(registrations')]
              own(fn, before, after) ==
                  IF call[1] = fn
                  THEN GrewByOne(before, after) /\ after[Len(after)] = call[2]
                  ELSE after = before
          IN /\ GrewByOne(registrations, registrations')
             /\ returned' = call[2]
             /\ own("register_metric", metric_registry, metric_registry')
             /\ own("register_student_metric", student_metric_registry,
                    student_metric_registry')
             /\ own("register_historical_metric", historical_metric_registry,
                    historical_metric_registry')]_vars

\* C19 witness: the same class was registered as a student metric and then
\* twice as a project metric; the project registry holds it twice and the
\* historical registry is empty.
C19_Witness ==
    /\ Len(registrations) = 3
    /\ registrations[1][1] = "register_student_metric"
    /\ Len(metric_registry) = 2
    /\ metric_registry[1] = metric_registry[2]
    /\ student_metric_registry = <<metric_registry[1]>>
    /\ historical_metric_registry = << >>


----------------------------------------------------------------------------
\* Properties of get_adaptive_interval.

\* The hours between the earliest and the latest creation of a task of the
\* project the call was made for; 0 when the project has no task.
SpanHours ==
    LET dates == {t.created_date : t \in {t \in tasks : t.project_id = metric.project_id}}
    IN IF dates = {} THEN 0
       ELSE (CHOOSE b \in dates : \A e \in dates : e <= b)
            - (CHOOSE a \in dates : \A e \in dates : a <= e)

----------------------------------------------------------------------------
\* Properties of the historical metrics.

\* The series a calculate_series call returned.
ReturnedSeries == {metric.result[sid] : sid \in DOMAIN metric.result}

\* 'YYYY-MM-DD' strings compare as their year, month and day do, in this order.
IsoBefore(a, b) ==
    \/ a[1] < b[1]
    \/ a[1] = b[1] /\ a[2] < b[2]
    \/ a[1] = b[1] /\ a[2] = b[2] /\ a[3] < b[3]

----------------------------------------------------------------------------
\* Properties of the refresh parameter.

\* The letter in upper case, for the letters of '1', 'true' and 'yes'.
Capital(ch) ==
    CASE ch = "t" -> "T" [] ch = "r" -> "R" [] ch = "u" -> "U" [] ch = "e" -> "E"
      [] ch = "y" -> "Y" [] ch = "s" -> "S" [] OTHER -> ch

\* The query carries a refresh value that is '1', 'true' or 'yes' up to the
\* case of its letters.
AsksRefresh(query) ==
    \E kv \in query :
        /\ kv[1] = "refresh"
        /\ \E word \in {<<"1">>, <<"t", "r", "u", "e">>, <<"y", "e", "s">>} :
              /\ Len(kv[2]) = Len(word)
              /\ \A i \in 1..Len(word) : kv[2][i] \in {word[i], Capital(word[i])}

\* C22: a request whose refresh value is '1', 'true' or 'yes' in any case
\* calls get_or_build_snapshot with use_cache false and force true, never
\* queries the cache and persists a new row; a request with another refresh
\* value or none queries the cache, and when a row computed within the TTL
\* exists it returns such a row and neither creates nor deletes a row.
C22_RefreshForcesRecompute ==
    [][\A c \in Calls :
         /\ (pc[c] = "idle" /\ pc'[c] # "idle")
            => IF AsksRefresh(args'[c].query)
               THEN /\ args'[c].force /\ ~args'[c].use_cache
                    /\ pc'[c] = "build"
               ELSE /\ ~args'[c].force /\ args'[c].use_cache
                    /\ pc'[c] = "lookup"
         /\ (pc[c] = "build" /\ pc'[c] # "build")
            => /\ built'[c]
               /\ snapshot'[c] \notin Ids(snapshots)
               /\ snapshot'[c] \in Ids(PairRows(snapshots', args[c].project))
         /\ (/\ pc[c] = "lookup" /\ pc'[c] # "lookup"
             /\ InWindow(snapshots, args[c].project, cutoff[c]) # {})
            => /\ pc'[c] = "done"
               /\ ~built'[c]
               /\ snapshots' = snapshots
               /\ snapshot'[c] \in Ids(InWindow(snapshots, args[c].project, cutoff[c]))]_vars

\* C22 witness: a historical request with refresh=True is about to persist a
\* row while a row computed within the TTL is stored, and an earlier request
\* has returned a stored row.
C22_Witness ==
    \E c, d \in Calls :
        /\ pc[c] = "build"
        /\ args[c].endpoint = "historical"
        /\ <<"refresh", <<"T", "r", "u", "e">>>> \in args[c].query
        /\ InWindow(snapshots, TheProject, now - ConfiguredTtl) # {}
        /\ pc[d] = "done" /\ ~built[d]


----------------------------------------------------------------------------
\* Properties of login_with_google.

\* Two strings that differ at most in the case of their letters.
SameIgnoringCase(s, t) ==
    /\ Len(s) = Len(t)
    /\ \A i \in 1..Len(s) :
          \/ s[i] = t[i]
          \/ \E k \in 1..26 : {s[i], t[i]} = {UpperCase[k], LowerCase[k]}

\* The configuration of the deployment, read from the settings.
GoogleAuth == (CHOOSE kv \in settings : kv[1] = "GOOGLE_AUTH")[2]
ConfiguredClientIds == (CHOOSE kv \in GoogleAuth : kv[1] = "CLIENT_IDS")[2]
ConfiguredDomains ==
    IF \E kv \in GoogleAuth : kv[1] = "ALLOWED_DOMAINS"
    THEN (CHOOSE kv \in GoogleAuth : kv[1] = "ALLOWED_DOMAINS")[2] ELSE {}
AutoCreateOff == <<"AUTO_CREATE_USERS", FALSE>> \in GoogleAuth

\* The domain is none of the configured domains, the case of letters aside.
OutsideDomains(domain) ==
    /\ ConfiguredDomains # {}
    /\ \A d \in ConfiguredDomains : ~SameIgnoringCase(d, domain)

\* The payload of the last login falls under one of the cases of C23, the
\* user table being the one before the call.
RejectedCase(payload, table) ==
    \/ ~\E kv \in payload : kv[1] = "aud" /\ kv[2] \in ConfiguredClientIds
    \/ ~\E kv \in payload :
          kv[1] = "iss" /\ kv[2] \in {"accounts.google.com", "https://accounts.google.com"}
    \/ <<"email_verified", TRUE>> \notin payload
    \/ ~\E kv \in payload : kv[1] = "email" /\ kv[2] # EmptyString
    \/ \E kv \in payload :
          /\ kv[1] = "email" /\ kv[2] # EmptyString
          /\ OutsideDomains(kv[2][Len(kv[2])])
    \/ \E kv \in payload : kv[1] = "hd" /\ OutsideDomains(kv[2])
    \/ /\ AutoCreateOff
       /\ \E kv \in payload :
             /\ kv[1] = "email" /\ kv[2] # EmptyString
             /\ \A u \in table :
                   \E i \in 1..2 : ~SameIgnoringCase(u.email[i], kv[2][i])

----------------------------------------------------------------------------
\* Properties of the metrics session.

\* The session holds the metrics auth entry.
HasAuthEntry(sess) == \E kv \in sess : kv[1] = "ld_metrics_auth"

\* The last request was a login answered with status "authenticated".
LoginAnswered(r) ==
    r.call = "login" /\ r.status = 200 /\ r.body.status = "authenticated"

\* C24: an external list or historical request for a project the user may
\* view is answered Unauthorized when the session holds no metrics auth entry
\* and is served only when it holds one; a logout that is answered
\* logged_out leaves the session without the entry; and the entry enters a
\* session only by a login answered "authenticated".  Hence after a logout
\* every such request is Unauthorized until the next successful login.
C24_ExternalNeedsSessionEntry ==
    /\ [](response.call \in {"list", "historical"} =>
            /\ response.status = 200 => HasAuthEntry(session)
            /\ (/\ ~HasAuthEntry(session)
                /\ <<"project", "project-1">> \in response.request.query
                /\ response.request.permitted) => response.status = 401)
    /\ []((response.call = "logout" /\ response.status = 200)
            => ~HasAuthEntry(session))
    /\ [][(~HasAuthEntry(session) /\ HasAuthEntry(session'))
            => LoginAnswered(response')]_vars

\* C24 witness: a logout for the external provider has removed the entry the
\* session held.
C24_Witness ==
    /\ response.call = "logout"
    /\ response.provider = "external"
    /\ response.status = 200
    /\ HasAuthEntry(response.before)
    /\ ~HasAuthEntry(session)

\* C29: after a login answered with status "authenticated" the session holds
\* the metrics auth entry.
C29_AuthenticatedLoginStoresEntry ==
    LoginAnswered(response) => HasAuthEntry(session)


----------------------------------------------------------------------------
\* Frame of get_or_build_snapshot.

\* C25: a step of a call for project P creates and deletes only rows of
\* (P, internal): every row of another project or of another provider
\* stays, every row that appears is a row of (P, internal) of a call in
\* flight for P, and a row that stays keeps its project, provider,
\* computed_at and payload.
C25_OnlyOwnPairIsWritten ==
    [][/\ \A r \in snapshots :
            (r.project # TheProject \/ r.provider # "internal") => r \in snapshots'
       /\ \A r \in snapshots' \ snapshots :
            /\ r.provider = "internal"
            /\ \E c \in Calls : pc[c] = "build" /\ args[c].project = r.project
       /\ \A r \in snapshots, s \in snapshots' : r.id = s.id => r = s]_vars

\* C25 witness: a call has created a row and deleted an older row of
\* (TheProject, internal) while the rows of the other project and of the
\* external provider are still stored.
C25_Witness ==
    \E c \in Calls :
        /\ pc[c] = "done" /\ built[c]
        /\ next_id > 4
        /\ PairRows(snapshots, TheProject) # {}
        /\ snapshot[c] \in Ids(PairRows(snapshots, TheProject))
        /\ \A r \in PairRows(snapshots, TheProject) : r.id = snapshot[c]
        /\ ForeignRows \subseteq snapshots


\* C27: once a call has created a row of (TheProject, internal), every later
\* state of the table holds a row of that pair.
C27_StoreNeverEmptiedAgain ==
    next_id > 3 => PairRows(snapshots, TheProject) # {}


----------------------------------------------------------------------------
\* The per-member aggregation of build_snapshot.

\* C26: the payload of build_snapshot has one student per member of the
\* project, and the member's assignedtasks, closedtasks, totalus and
\* completedus entries carry the numbers of tasks, closed tasks, stories and
\* closed stories of the project that are assigned to the member.
C26_MemberCountsAreExact ==
    (metric.call = "build_snapshot" /\ "payload" \in DOMAIN metric.result)
    => LET p == metric.project_id
           payload == metric.result.payload
           Count(key, rows(_)) ==
               \A u \in MembersOf(p) :
                   /\ StudentEntries(payload, key, u) # {}
                   /\ \A e \in StudentEntries(payload, key, u) :
                         e.value = 10000 * Cardinality(rows(u))
           Tasks(u) == AssignedTo(tasks, p, u)
           ClosedTasks(u) == ClosedAmong(AssignedTo(tasks, p, u))
           Stories(u) == AssignedTo(userstories, p, u)
           ClosedStories(u) == ClosedAmong(AssignedTo(userstories, p, u))
       IN /\ Len(payload.students) = Cardinality(MembersOf(p))
          /\ \A u \in MembersOf(p) :
                \E i \in DOMAIN payload.students :
                    payload.students[i].username = Username(u)
          /\ Count("assignedtasks", Tasks)
          /\ Count("closedtasks", ClosedTasks)
          /\ Count("totalus", Stories)
          /\ Count("completedus", ClosedStories)


----------------------------------------------------------------------------
\* The has_active_sprint flag of the completion metrics.

\* C28: in the result of TaskCompletionMetric, UserStoryCompletionMetric and
\* IssueResolutionMetric, metadata.has_active_sprint is true exactly when
\* the calculation resolved a sprint and filtered by it, and it is false
\* when the project has no open milestone and sprint_name is "Proyecto".
C28_HasActiveSprintFlag ==
    metric.call \in {"TaskCompletionMetric", "UserStoryCompletionMetric",
                     "IssueResolutionMetric"}
    => /\ metric.result.metadata.has_active_sprint <=> DOMAIN metric.sprint # {}
       /\ (/\ OpenOf(metric.project_id) = {}
           /\ metric.result.metadata.sprint_name = <<"Proyecto">>)
             => ~metric.result.metadata.has_active_sprint


----------------------------------------------------------------------------
\* The entries of a shared student metric instance.

\* The member row of the calculation with the given username.
RowOf(username) ==
    CHOOSE r \in {metric.results[i] : i \in 1..Len(metric.results)} :
        r.username = username

\* The counts a class stamps, taken from a member row.
OwnCounts(cls, row) ==
    IF cls = "AssignedTasksStudentMetric"
    THEN <<row.assigned_tasks, "/", metric.instance.context.total_tasks>>
    ELSE <<row.closed_tasks, "/", row.assigned_tasks>>

====
